---- MODULE Spec2Model ----
(***************************************************************************)
(* Model of the Deutsche-Bahn timetable pipeline of the repository:        *)
(*   - Event / TimetableStop and the path reconciler                       *)
(*       (crates/deutsche_bahn/src/model/timetables.rs)                    *)
(*   - the merge of an incoming stop into a cached one, and the station    *)
(*     timetable cache TimetableNews (crates/deutsche_bahn/src/timetables.rs) *)
(*   - the trip stitcher Triptable (crates/deutsche_bahn/src/triptable.rs) *)
(*                                                                         *)
(* Conventions.  An Option<T> is a sequence of length <= 1: <<>> is None   *)
(* and <<v>> is Some(v).  A DateTime is an integer number of seconds.      *)
(* An EventStatus is one of the strings "Planned", "Added", "Cancelled".   *)
(* Rust indices are 0-based; the sequences here are 1-based, so a Rust     *)
(* index i is the position i + 1.                                          *)
(***************************************************************************)
EXTENDS Integers, Sequences, FiniteSets, TLC

VARIABLES
    \* --- specification SpecMerge: one Event merged into a cached Event ---
    mPc,        \* "ready" (inputs drawn) or "done" (merge applied)
    mSelf,      \* the cached Event (before the merge while "ready", after it while "done")
    mOld,       \* the cached Event as it was before the merge
    mOther,     \* the incoming Event
    mRes,       \* the bool returned by Event::timetablestop_update
    \* --- specification SpecCache: one TimetableNews and its feeds ---
    cache,      \* the TimetableNews
    wall,       \* chrono::offset::Local::now(), in seconds
    cOp,        \* the operation that ran last
    cPrev,      \* the TimetableNews as it was when that operation started
    cIn,        \* what the upstream answered to that operation, and for get_updates the
                \* TimetableNews after fetch_plan and after apply_updates
    cOut,       \* what that operation returned
    cOps,       \* operations run so far
    cTicks,     \* clock advances so far
    cSwept,     \* the last call of remove_outdated: its instant, the operation that made
                \* it, the operation that made the call before it, and whether it came at
                \* least 2 hours after that call ("new": the construction of the cache)
    \* --- specification SpecStitch: the Triptable and the TimetableNews it drives ---
    tNews,      \* station -> its TimetableNews (the Arcs held by timetables and the queue)
    tTimetables,        \* Triptable.timetables: station name key -> station
    tTrips,             \* Triptable.trips: trip id -> InternalTrip
    tAddQueue,          \* Triptable.add_stations_queue
    tQueue,             \* Triptable.timetables_update_queue
    tPc,        \* where Triptable::update stands: "idle", "loop" (holding the read guard
                \* of the queue) or "end" (loop left, queue not yet replaced)
    tIdx,       \* position of the for loop in the queue
    tPrio,      \* queue_prio_next
    tNotPrio,   \* queue_not_prio_next
    tLog,       \* the stops the last iteration of the for loop processed, in order, each
                \* with the InternalTrip before and after it
    tVisits,    \* stations_removed_stops: the stations this call of update has gone
                \* through, each with its removed stops and the outcome of its get_updates
    tAdds,      \* the stations try_add_station was last called for, by add_station or by
                \* the update under way, each with what get_stations answered
    tRequested, \* stations add_station was called for
    tCycles,    \* calls of update so far
    tTicks,     \* clock advances so far
    \* --- specification SpecPath: Event::calculate_actual_path on one Event ---
    pPc,        \* "ready" (paths drawn) or "done" (actual_path calculated)
    pEvent,     \* the Event
    \* --- specification SpecAlias: one stop of a station stitched into a trip that
    \*     another station's stop created ---
    aPc,        \* "ready" (trip created by the other station) or "done" (stop stitched)
    aTimetable, \* the TimetableNews of the station whose stop is stitched
    aBefore,    \* Triptable.trips before the stop is stitched
    aTrips,     \* Triptable.trips
    \* --- specification SpecLocks: the tokio RwLocks of one Triptable, one of its
    \*     TimetableNews, one stop and one trip, and the tasks that take them ---
    lScenario,  \* the branches the calls take
    lPc,        \* task -> position in the lock operations and awaits of its call
                \* (one past the last: the call has returned)
    lHeld,      \* lock -> the guards alive, each <<task, mode>>, in order of acquisition
    lQueue,     \* lock -> the tasks waiting in read().await or write().await, in order
    \* --- specification SpecDrift: one tracked Event merged with a sequence of changes ---
    dEvent,     \* the cached Event
    dReported,  \* changed_time of the cached Event when it was last reported: when it was
                \* tracked, or after the last merge that returned true
    dSince,     \* merges since then (each returned false)
    dMerges,    \* merges so far
    \* --- specification SpecLimit: one BahnApiClient and the tasks that call get ---
    rLimit,     \* credentials.rate_limit_per_minute
    rState,     \* BahnApiClientState: avaliable_requests and last_refill
    rPc,        \* task -> where its call of get stands
    rRes,       \* task -> what its last try_decrement_avaliable_requests found in
                \* avaliable_requests and what it returned
    rGranted,   \* calls of try_decrement_avaliable_requests that returned Ok since the
                \* last refill (since construction, if there was none)
    rRefillGap, \* the time from the refill before (or construction) to the last refill
    rCalls,     \* calls of get so far
    rUpstream,  \* requests sent to the upstream so far
    rTicks,     \* clock advances so far
    \* --- specification SpecCollect: the task that collector::run spawns for one
    \*     collector ---
    supTick,    \* what Collector::tick returns
    supOnError, \* what Collector::on_error returns
    supOnPanic, \* what Collector::on_panic returns
    supPc,      \* where the task stands
    supResult,  \* result: Ok(continuation) or Err(strategy)
    supBackoff, \* backoff, in seconds
    supFails,   \* runs in a row that failed or panicked, the last one included
    supWaits    \* what the task has waited for since run_persistent last returned, in
                \* order: "tick" for interval.tick(), the seconds for sleep(backoff)

mergeVars == <<mPc, mSelf, mOld, mOther, mRes>>
cacheVars == <<cache, cOp, cPrev, cIn, cOut, cOps, cTicks, cSwept>>
stitchVars == <<tNews, tTimetables, tTrips, tAddQueue, tQueue, tPc, tIdx, tPrio, tNotPrio,
                tLog, tVisits, tAdds, tRequested, tCycles, tTicks>>

pathVars == <<pPc, pEvent>>
aliasVars == <<aPc, aTimetable, aBefore, aTrips>>
lockVars == <<lScenario, lPc, lHeld, lQueue>>
driftVars == <<dEvent, dReported, dSince, dMerges>>
limitVars == <<rLimit, rState, rPc, rRes, rGranted, rRefillGap, rCalls, rUpstream, rTicks>>
collectVars == <<supTick, supOnError, supOnPanic, supPc, supResult, supBackoff, supFails, supWaits>>

vars == <<mPc, mSelf, mOld, mOther, mRes,
          cache, wall, cOp, cPrev, cIn, cOut, cOps, cTicks, cSwept,
          tNews, tTimetables, tTrips, tAddQueue, tQueue, tPc, tIdx, tPrio, tNotPrio,
          tLog, tVisits, tAdds, tRequested, tCycles, tTicks,
          pPc, pEvent,
          aPc, aTimetable, aBefore, aTrips,
          lScenario, lPc, lHeld, lQueue,
          dEvent, dReported, dSince, dMerges,
          rLimit, rState, rPc, rRes, rGranted, rRefillGap, rCalls, rUpstream, rTicks,
          supTick, supOnError, supOnPanic, supPc, supResult, supBackoff, supFails, supWaits>>

(***************************************************************************)
(* Option<T>                                                               *)
(***************************************************************************)
None == <<>>
Some(v) == <<v>>
IsSome(o) == Len(o) = 1
IsNone(o) == Len(o) = 0
Unwrap(o) == o[1]
UnwrapOr(o, d) == IF IsSome(o) THEN o[1] ELSE d

(***************************************************************************)
(* chrono::Duration::num_minutes / num_hours of a difference of d seconds: *)
(* Rust integer division, truncating towards zero.                         *)
(***************************************************************************)
TruncDiv(d, n) == IF d >= 0 THEN d \div n ELSE -((-d) \div n)
NumMinutes(d) == TruncDiv(d, 60)
NumHours(d) == TruncDiv(d, 3600)
Minutes(m) == m * 60
Hours(h) == h * 3600

(***************************************************************************)
(* EventStatus and ActualPathStop                                          *)
(***************************************************************************)
EventStatus == {"Planned", "Added", "Cancelled"}
ActualPathStop(status, name) == [status |-> status, name |-> name]

\* positions lo..hi-1 (Rust slice v[lo..hi], 0-based) of a sequence
Slice(v, lo, hi) == [k \in 1..(hi - lo) |-> v[lo + k]]
Tagged(names, status) == [k \in 1..Len(names) |-> ActualPathStop(status, names[k])]

(***************************************************************************)
(* Event::calculate_actual_status                                          *)
(***************************************************************************)
ActualStatusOf(e) == UnwrapOr(e.changed_status, UnwrapOr(e.planned_status, "Planned"))

(***************************************************************************)
(* Event::calculate_actual_path: the aligned two-pointer walk.  i indexes  *)
(* changed_path, j indexes planned_path (both 0-based as in the source).   *)
(***************************************************************************)
\* inner loop "for ck in i..changed.len()": the first ck that ends the search for pk,
\* or -1 when the loop runs to its end without a hit
RECURSIVE ScanCk(_, _, _, _)
ScanCk(planned, changed, pk, ck) ==
    IF ck >= Len(changed) THEN -1
    ELSE IF pk # Len(planned) /\ changed[ck + 1] # planned[pk + 1]
         THEN ScanCk(planned, changed, pk, ck + 1)
         ELSE IF pk = Len(planned) THEN Len(changed) ELSE ck

\* a search that gives up on a common name at once: all that is left is skipped
ScanPkNoCommon(planned, changed, i, pk) == <<Len(planned), Len(changed)>>
\* outer loop "for pk in j..planned.len() + 1": the resynchronisation point <<pk, ck>>
RECURSIVE ScanPk(_, _, _, _)
ScanPk(planned, changed, i, pk) ==
    IF pk > Len(planned) THEN <<-1, -1>>
    ELSE IF ScanCk(planned, changed, pk, i) # -1
         THEN <<pk, ScanCk(planned, changed, pk, i)>>
         ELSE ScanPk(planned, changed, i, pk + 1)

\* a resynchronisation that leaves out the planned names it skips
ResyncEmitAddedOnly(planned, changed, i, j, acc, sync) ==
    [i |-> sync[2], j |-> sync[1],
     acc |-> acc \o Tagged(Slice(changed, i, sync[2]), "Added")]
\* a resynchronisation that pushes the planned names it skips twice
ResyncEmitCancelledTwice(planned, changed, i, j, acc, sync) ==
    [i |-> sync[2], j |-> sync[1],
     acc |-> acc \o Tagged(Slice(planned, j, sync[1]), "Cancelled")
                 \o Tagged(Slice(planned, j, sync[1]), "Cancelled")
                 \o Tagged(Slice(changed, i, sync[2]), "Added")]
\* the tail of one resynchronisation: planned[j..pk] cancelled, changed[i..ck] added
ResyncEmit(planned, changed, i, j, acc, sync) ==
    [i |-> sync[2], j |-> sync[1],
     acc |-> acc \o Tagged(Slice(planned, j, sync[1]), "Cancelled")
                 \o Tagged(Slice(changed, i, sync[2]), "Added")]

\* an iteration that moves past the names left over on one side without an entry for them
PathStepTailsDropped(planned, changed, i, j, acc) ==
    IF i >= Len(changed)
    THEN [i |-> i, j |-> j + 1, acc |-> acc]
    ELSE IF j >= Len(planned)
    THEN [i |-> i + 1, j |-> j, acc |-> acc]
    ELSE IF changed[i + 1] = planned[j + 1]
    THEN [i |-> i + 1, j |-> j + 1, acc |-> Append(acc, ActualPathStop("Planned", changed[i + 1]))]
    ELSE ResyncEmit(planned, changed, i, j, acc, ScanPk(planned, changed, i, j))
\* one iteration of the while loop: the pointers and the output after it
PathStep(planned, changed, i, j, acc) ==
    IF i >= Len(changed)
    THEN [i |-> i, j |-> j + 1, acc |-> Append(acc, ActualPathStop("Cancelled", planned[j + 1]))]
    ELSE IF j >= Len(planned)
    THEN [i |-> i + 1, j |-> j, acc |-> Append(acc, ActualPathStop("Added", changed[i + 1]))]
    ELSE IF changed[i + 1] = planned[j + 1]
    THEN [i |-> i + 1, j |-> j + 1, acc |-> Append(acc, ActualPathStop("Planned", changed[i + 1]))]
    ELSE ResyncEmit(planned, changed, i, j, acc, ScanPk(planned, changed, i, j))

RECURSIVE PathWalk(_, _, _)
PathWalk(planned, changed, st) ==
    IF ~(st.i < Len(changed) \/ st.j < Len(planned)) THEN st.acc
    ELSE PathWalk(planned, changed, PathStep(planned, changed, st.i, st.j, st.acc))

\* an absent changed path read as an empty one
ActualPathOfAbsentAsEmpty(e) ==
    PathWalk(e.planned_path, UnwrapOr(e.changed_path, <<>>), [i |-> 0, j |-> 0, acc |-> <<>>])
ActualPathOf(e) ==
    IF IsSome(e.changed_path)
    THEN PathWalk(e.planned_path, Unwrap(e.changed_path), [i |-> 0, j |-> 0, acc |-> <<>>])
    ELSE Tagged(e.planned_path, "Planned")

CalculateActualStatus(e) == [e EXCEPT !.actual_status = ActualStatusOf(e)]
CalculateActualPath(e) == [e EXCEPT !.actual_path = ActualPathOf(e)]
\* Event::calculate_all
EventCalculateAll(e) == CalculateActualPath(CalculateActualStatus(e))

(***************************************************************************)
(* An Event as the feed deserialises it: the fields the merge, the         *)
(* eviction and the stitcher read.  actual_path and actual_status are      *)
(* #[serde(default)]: empty and Planned until calculate_* is called.       *)
(***************************************************************************)
RawEvent(pt, ct, pp, cp, ppth, cpth, ps, cs) ==
    [ planned_time |-> pt, changed_time |-> ct,
      planned_platform |-> pp, changed_platform |-> cp,
      planned_path |-> ppth, changed_path |-> cpth,
      planned_status |-> ps, changed_status |-> cs,
      actual_status |-> "Planned", actual_path |-> <<>> ]

(***************************************************************************)
(* trait TimetableStopUpdate: every impl returns the new value of self and *)
(* the bool result, as the record [val, res].                              *)
(***************************************************************************)
Upd(v, r) == [val |-> v, res |-> r]

\* impl for String (platforms) and for EventStatus: replace when different
UpdateEq(self, other) ==
    IF self # other THEN Upd(other, TRUE) ELSE Upd(self, FALSE)

\* impl for DateTime<Local>
UpdateDateTime(self, other) ==
    IF self = other THEN Upd(self, FALSE)
    ELSE Upd(other, NumMinutes(other - self) > 1)

\* impl for Vec<T>
UpdateVec(self, other) ==
    IF Len(self) > Len(other) THEN Upd(other, TRUE) ELSE Upd(self, FALSE)

\* impl for Option<T>, T naming the impl of the inner type
RECURSIVE TimetableStopUpdate(_, _, _)
SomeUpd(r) == Upd(Some(r.val), r.res)
UpdateOption(T, self, other) ==
    IF IsSome(other)
    THEN IF IsSome(self)
         THEN SomeUpd(TimetableStopUpdate(T, Unwrap(self), Unwrap(other)))
         ELSE Upd(other, TRUE)
    ELSE Upd(self, FALSE)

\* impl for Event, field by field; acc = [val: the Event so far, res: the result so far],
\* patch = what the field's own timetablestop_update returned
\* a platform patch that reports every change of the revised platform
PlatformPatchedAnyChange(acc, patch) ==
    Upd([acc.val EXCEPT !.changed_platform = patch.val], acc.res \/ patch.res)
PlatformPatched(acc, patch) ==
    Upd([acc.val EXCEPT !.changed_platform = patch.val],
        acc.res \/ (/\ patch.res
                    /\ IsSome(patch.val) /\ IsSome(acc.val.planned_platform)
                    /\ Unwrap(patch.val) # Unwrap(acc.val.planned_platform)))

\* a path patch that reports the new path only for a cancelled Event
PathPatchedIfCancelled(acc, patch) ==
    IF patch.res
    THEN Upd(CalculateActualPath([acc.val EXCEPT !.changed_path = patch.val]),
             acc.res \/ acc.val.actual_status = "Cancelled")
    ELSE Upd([acc.val EXCEPT !.changed_path = patch.val], acc.res)
PathPatched(acc, patch) ==
    IF patch.res
    THEN Upd(CalculateActualPath([acc.val EXCEPT !.changed_path = patch.val]), TRUE)
    ELSE Upd([acc.val EXCEPT !.changed_path = patch.val], acc.res)

\* a status patch that reports every change of the revised status
StatusPatchedAnyChange(acc, patch) ==
    IF patch.res
    THEN Upd(CalculateActualStatus([acc.val EXCEPT !.changed_status = patch.val]), TRUE)
    ELSE Upd([acc.val EXCEPT !.changed_status = patch.val], acc.res)
StatusPatched(acc, patch) ==
    IF patch.res
    THEN Upd(CalculateActualStatus([acc.val EXCEPT !.changed_status = patch.val]),
             acc.res \/ UnwrapOr(patch.val, UnwrapOr(acc.val.planned_status, "Planned")) = "Cancelled")
    ELSE Upd([acc.val EXCEPT !.changed_status = patch.val], acc.res)

\* the guard on the time patch: at least 5 minutes after the planned time, when both
\* times are present
TimeAfterPlanned(planned_time, changed_time) ==
    IF IsSome(planned_time) /\ IsSome(changed_time)
    THEN NumMinutes(Unwrap(changed_time) - Unwrap(planned_time)) >= 5
    ELSE TRUE

TimePatched(acc, patch) ==
    Upd([acc.val EXCEPT !.changed_time = patch.val],
        acc.res \/ (patch.res /\ TimeAfterPlanned(acc.val.planned_time, patch.val)))

UpdatePlatform(acc, other) ==
    PlatformPatched(acc, UpdateOption("String", acc.val.changed_platform, other.changed_platform))
UpdatePath(acc, other) ==
    PathPatched(acc, UpdateOption("Vec", acc.val.changed_path, other.changed_path))
UpdateStatus(acc, other) ==
    StatusPatched(acc, UpdateOption("EventStatus", acc.val.changed_status, other.changed_status))
UpdateTime(acc, other) ==
    TimePatched(acc, UpdateOption("DateTime", acc.val.changed_time, other.changed_time))

UpdateEvent(self, other) ==
    UpdateTime(UpdateStatus(UpdatePath(UpdatePlatform(Upd(self, FALSE), other), other), other), other)

\* trait TimetableStopUpdate: the impl of the type T
TimetableStopUpdate(T, self, other) ==
    CASE T = "String" -> UpdateEq(self, other)
      [] T = "EventStatus" -> UpdateEq(self, other)
      [] T = "DateTime" -> UpdateDateTime(self, other)
      [] T = "Vec" -> UpdateVec(self, other)
      [] T = "Event" -> UpdateEvent(self, other)

(***************************************************************************)
(* TimetableStopId and TimetableStop                                       *)
(***************************************************************************)
StopId(trip, date, index) ==
    [daily_trip_id |-> trip, date_specifier |-> date, index_of_stop_in_trip |-> index]
\* TimetableStopId::full_id_string: "{daily_trip_id}-{date_specifier}-{index}"
FullIdString(id) == <<id.daily_trip_id, id.date_specifier, id.index_of_stop_in_trip>>
\* TimetableStopId::trip_id_string: "{daily_trip_id}-{date_specifier}"
TripIdString(id) == <<id.daily_trip_id, id.date_specifier>>

TimetableStop(id, arrival, departure) ==
    [id |-> id, arrival |-> arrival, departure |-> departure]


\* TimetableStop::calculate_all
StopCalculateAll(stop) ==
    [stop EXCEPT !.arrival = IF IsSome(@) THEN Some(EventCalculateAll(Unwrap(@))) ELSE None,
                 !.departure = IF IsSome(@) THEN Some(EventCalculateAll(Unwrap(@))) ELSE None]

\* TimetableStop::arrival_path / departure_path, with the callers' unwrap_or(vec![])
ArrivalPath(stop) == IF IsSome(stop.arrival) THEN Unwrap(stop.arrival).actual_path ELSE <<>>
DeparturePath(stop) == IF IsSome(stop.departure) THEN Unwrap(stop.departure).actual_path ELSE <<>>

\* TimetableStop::status
\* status looking at the arrival only
StopStatusArrivalOnly(stop) ==
    IF IsSome(stop.arrival) THEN Unwrap(stop.arrival).actual_status ELSE "Planned"
StopStatus(stop) ==
    LET arrival_status == IF IsSome(stop.arrival) THEN Unwrap(stop.arrival).actual_status ELSE "Planned"
        departure_status == IF IsSome(stop.departure) THEN Unwrap(stop.departure).actual_status ELSE "Planned"
    IN  IF arrival_status = "Cancelled" \/ departure_status = "Cancelled" THEN "Cancelled"
        ELSE IF arrival_status = "Added" \/ departure_status = "Added" THEN "Added"
        ELSE "Planned"

\* TimetableStop::is_added
\* is_added looking at the arrival only
IsAddedArrivalOnly(stop) ==
    IsSome(stop.arrival) /\ Unwrap(stop.arrival).planned_status = Some("Added")

IsAdded(stop) ==
    LET a == IF IsSome(stop.arrival) THEN Unwrap(stop.arrival).planned_status ELSE None
        d == IF IsSome(stop.departure) THEN Unwrap(stop.departure).planned_status ELSE None
    IN  (IF IsSome(a) THEN a ELSE d) = Some("Added")

\* impl TimetableStopUpdate for TimetableStop
StopPatched(self, a, d) ==
    Upd([self EXCEPT !.arrival = a.val, !.departure = d.val], a.res \/ d.res)
UpdateStop(self, other) ==
    StopPatched(self, UpdateOption("Event", self.arrival, other.arrival),
                      UpdateOption("Event", self.departure, other.departure))

(***************************************************************************)
(* TimetableNews, the station timetable cache, as a record:                *)
(*   stops      the HashMap full id -> Arc<RwLock<TimetableStop>>: a       *)
(*              function from the tracked full ids to [obj, stop], obj     *)
(*              being the identity of the Arc allocation                   *)
(*   next_obj   the identity the next Arc::new gets                        *)
(***************************************************************************)
\* For how many hours to fetch plan-data.
TIMETABLE_NEWS_PREFETCH == 2
\* After how many minutes to remove an outdated stop.
REMOVE_STOP_AFTER == 120

\* TimetableNews::new
NewTimetable(station_name, aliases, now) ==
    [ stops |-> <<>>,
      next_obj |-> 1,
      fetch_next |-> now,
      last_outdated_removed |-> now,
      last_update |-> None,
      station_name |-> station_name,
      station_name_aliases |-> aliases,
      removed_stops |-> <<>>,
      unapplied_known_changes_cache |-> <<>> ]

Tracked(c) == DOMAIN c.stops
\* the Arc handed out for a tracked stop: the full id it is stored under and its identity
Ref(c, fid) == [fid |-> fid, obj |-> c.stops[fid].obj]

\* HashMap::insert of a fresh Arc::new(RwLock::new(stop))
InsertNew(c, stop) ==
    [c EXCEPT !.stops = [x \in DOMAIN c.stops \cup {FullIdString(stop.id)} |->
                            IF x = FullIdString(stop.id)
                            THEN [obj |-> c.next_obj, stop |-> stop] ELSE c.stops[x]],
              !.next_obj = @ + 1]

\* is_event_outdated looking at the planned time only
IsEventOutdatedPlannedOnly(event, minutes_tolerance, clock) ==
    ~(IsSome(event.planned_time)
      /\ Unwrap(event.planned_time) >= clock - Minutes(minutes_tolerance))

\* is_event_outdated
IsEventOutdated(event, minutes_tolerance, clock) ==
    LET now == clock - Minutes(minutes_tolerance)
    IN  /\ ~(IsSome(event.planned_time) /\ Unwrap(event.planned_time) >= now)
        /\ ~(IsSome(event.changed_time) /\ Unwrap(event.changed_time) >= now)

\* is_stop_outdated
IsStopOutdated(stop, minutes_tolerance, clock) ==
    /\ (IsSome(stop.arrival) => IsEventOutdated(Unwrap(stop.arrival), minutes_tolerance, clock))
    /\ (IsSome(stop.departure) => IsEventOutdated(Unwrap(stop.departure), minutes_tolerance, clock))

\* the while loop of TimetableNews::fetch_plan.  plan[h] is what get_plan returns for
\* the slice starting at hour h; fail_at is the number of slices that succeed before
\* a fetch fails (-1: no fetch fails).  Yields the cursor, the stops and the result,
\* with the number of calls of get_plan and the instants they were made for, in order.
RECURSIVE PlanLoop(_, _, _, _, _, _, _)
PlanLoop(plan, fetch_next, current_time, fail_at, n, new_stops, result) ==
    IF ~(fetch_next < current_time + Hours(TIMETABLE_NEWS_PREFETCH))
    THEN [fetch_next |-> fetch_next, new_stops |-> new_stops, result |-> result, fetched |-> n,
          asked |-> <<>>]
    ELSE IF n = fail_at
         THEN [fetch_next |-> fetch_next, new_stops |-> new_stops,
               result |-> IF result = "Ok" THEN "ErrButValues" ELSE "Err", fetched |-> n + 1,
               asked |-> <<fetch_next>>]
         ELSE [PlanLoop(plan, fetch_next + Hours(1), current_time, fail_at, n + 1,
                        new_stops \o plan[fetch_next], "Ok")
                  EXCEPT !.asked = <<fetch_next>> \o @]

RECURSIVE InsertAll(_, _)
InsertAll(c, new_stops) ==
    IF new_stops = <<>> THEN c
    ELSE InsertAll(InsertNew(c, StopCalculateAll(Head(new_stops))), Tail(new_stops))

\* a fetch_plan that drops the stops it fetched when a later slice fails
PlanFetchedAllOrNothing(c, loop) ==
    [c |-> InsertAll([c EXCEPT !.fetch_next = loop.fetch_next],
                     IF loop.result = "Ok" THEN loop.new_stops ELSE <<>>),
     result |-> loop.result,
     fetched |-> loop.fetched,
     asked |-> loop.asked]
\* TimetableNews::fetch_plan: [c: the cache afterwards, result: the UpdateResult kind]
PlanFetched(c, loop) ==
    [c |-> InsertAll([c EXCEPT !.fetch_next = loop.fetch_next], loop.new_stops),
     result |-> loop.result,
     fetched |-> loop.fetched,
     asked |-> loop.asked]
FetchPlan(plan, c, clock, fail_at) ==
    PlanFetched(c, PlanLoop(plan, c.fetch_next, clock, fail_at, 0, <<>>, "OkNoValues"))

\* a get_known_changes that stamps last_update whether the fetch succeeded or not
GetKnownChangesStamped(c, clock, ok) == [c EXCEPT !.last_update = Some(clock)]
\* TimetableNews::get_known_changes: sets last_update when the fetch succeeded
GetKnownChanges(c, clock, ok) ==
    IF ok THEN [c EXCEPT !.last_update = Some(clock)] ELSE c

\* the body of the loop of TimetableNews::apply_updates:
\* acc = [c, result: the Arcs pushed, cache_updates: the changes put aside]
ApplyKnown(acc, fid, u) ==
    [acc EXCEPT !.c.stops[fid].stop = u.val,
                !.result = IF u.res THEN Append(@, Ref(acc.c, fid)) ELSE @]
ApplyAdded(acc, fid, c2) ==
    [acc EXCEPT !.c = c2, !.result = Append(@, Ref(c2, fid))]
ApplyOne(acc, stop_change, fid) ==
    IF fid \in Tracked(acc.c)
    THEN ApplyKnown(acc, fid, UpdateStop(acc.c.stops[fid].stop, stop_change))
    ELSE IF IsAdded(stop_change)
    THEN ApplyAdded(acc, fid, InsertNew(acc.c, StopCalculateAll(stop_change)))
    ELSE [acc EXCEPT !.cache_updates = Append(@, stop_change)]

RECURSIVE ApplyLoop(_, _)
ApplyLoop(acc, changes) ==
    IF changes = <<>> THEN acc
    ELSE ApplyLoop(ApplyOne(acc, Head(changes), FullIdString(Head(changes).id)), Tail(changes))

\* TimetableNews::apply_updates: [c, values]
Applied(acc) ==
    [c |-> [acc.c EXCEPT !.unapplied_known_changes_cache = acc.cache_updates],
     values |-> acc.result]
ApplyUpdates(c, changes) ==
    Applied(ApplyLoop([c |-> c, result |-> <<>>, cache_updates |-> <<>>], changes))

\* the full ids TimetableNews::remove_outdated remembers to remove
OutdatedIds(c, clock) ==
    {fid \in Tracked(c) :
        LET stop == c.stops[fid].stop
        IN  /\ (IsSome(stop.arrival) => IsEventOutdated(Unwrap(stop.arrival), REMOVE_STOP_AFTER, clock))
            /\ (IsSome(stop.departure) => IsEventOutdated(Unwrap(stop.departure), REMOVE_STOP_AFTER, clock))}

\* an eviction pass that overwrites the removed-stops list with what it removed
RemoveOutdatedOverwriting(c, clock, remove) ==
    LET gone == {remove[k] : k \in 1..Len(remove)}
    IN  [c EXCEPT !.stops = [x \in DOMAIN c.stops \ gone |-> c.stops[x]],
                  !.removed_stops = [k \in 1..Len(remove) |-> c.stops[remove[k]].stop],
                  !.last_outdated_removed = clock]
\* TimetableNews::remove_outdated; remove lists OutdatedIds in the order the HashMap
\* iterated over them
RemoveOutdated(c, clock, remove) ==
    LET gone == {remove[k] : k \in 1..Len(remove)}
    IN  [c EXCEPT !.stops = [x \in DOMAIN c.stops \ gone |-> c.stops[x]],
                  !.removed_stops = @ \o [k \in 1..Len(remove) |-> c.stops[remove[k]].stop],
                  !.last_outdated_removed = clock]

UpdateResult(kind, values, errors) == [kind |-> kind, values |-> values, errors |-> errors]

\* arms 1 and 2 with the outcome of fetch_plan left out of the classification
ChangesFetchedPlanIgnored(a, plan_result, plan_err) ==
    [c |-> a.c, applied |-> "fetched",
     result |-> IF a.values = <<>> THEN UpdateResult("OkNoValues", <<>>, <<>>)
                ELSE UpdateResult("Ok", a.values, <<>>)]
\* the match of TimetableNews::get_updates on (fetch_plan_result, get_known_changes_result)
\* arms 1 and 2: the changes were fetched; a = apply_updates(timetable.stops)
ChangesFetched(a, plan_result, plan_err) ==
    [c |-> a.c, applied |-> "fetched",
     result |-> IF plan_result \in {"Err", "ErrButValues"}
                THEN IF a.values = <<>> THEN UpdateResult("Err", <<>>, <<plan_err>>)
                     ELSE UpdateResult("ErrButValues", a.values, <<plan_err>>)
                ELSE IF a.values = <<>> THEN UpdateResult("OkNoValues", <<>>, <<>>)
                     ELSE UpdateResult("Ok", a.values, <<>>)]
\* arms 3 and 4 with the values of apply_updates not handed on
ChangesFromCacheNoValues(a, plan_result, plan_err, changes_err) ==
    [c |-> a.c, applied |-> "cache",
     result |-> UpdateResult("ErrButValues", <<>>,
                             IF plan_result = "ErrButValues"
                             THEN <<plan_err, changes_err>> ELSE <<changes_err>>)]
\* arms 3 and 4: the changes were not fetched, the plan was (in part);
\* a = apply_updates(the drained unapplied_known_changes_cache)
ChangesFromCache(a, plan_result, plan_err, changes_err) ==
    [c |-> a.c, applied |-> "cache",
     result |-> UpdateResult("ErrButValues", a.values,
                             IF plan_result = "ErrButValues"
                             THEN <<plan_err, changes_err>> ELSE <<changes_err>>)]
\* the match of get_updates with arms 3 and 4 leaving the unapplied changes where they are
ClassifyAndApplyNoReplay(c, plan_result, plan_err, changes) ==
    IF changes.ok
    THEN ChangesFetched(ApplyUpdates(c, changes.stops), plan_result, plan_err)
    ELSE IF plan_result \in {"Ok", "OkNoValues", "ErrButValues"}
    THEN ChangesFromCache([c |-> c, values |-> <<>>], plan_result, plan_err, changes.err)
    ELSE [c |-> c, applied |-> "nothing",
          result |-> UpdateResult("Err", <<>>, <<plan_err, changes.err>>)]

ClassifyAndApply(c, plan_result, plan_err, changes) ==
    IF changes.ok
    THEN ChangesFetched(ApplyUpdates(c, changes.stops), plan_result, plan_err)
    ELSE IF plan_result \in {"Ok", "OkNoValues", "ErrButValues"}
    THEN ChangesFromCache(ApplyUpdates([c EXCEPT !.unapplied_known_changes_cache = <<>>],
                                       c.unapplied_known_changes_cache),
                          plan_result, plan_err, changes.err)
    ELSE [c |-> c, applied |-> "nothing",
          result |-> UpdateResult("Err", <<>>, <<plan_err, changes.err>>)]

\* TimetableNews::get_updates up to its "remove outdated" block: [c, result], with the
\* outcome of fetch_plan, the cache it left and the arm of the match that ran
Classified(p, r) ==
    [c |-> r.c, result |-> r.result, plan_result |-> p.result, fetched |-> p.fetched,
     asked |-> p.asked,
     after_plan |-> p.c, applied |-> r.applied]
PlanThenChanges(p, clock, plan_err, changes) ==
    Classified(p, ClassifyAndApply(GetKnownChanges(p.c, clock, changes.ok), p.result, plan_err, changes))
GetUpdatesFetch(plan, c, clock, fail_at, plan_err, changes) ==
    PlanThenChanges(FetchPlan(plan, c, clock, fail_at), clock, plan_err, changes)

\* the "remove outdated" block of TimetableNews::get_updates
SweepDueAlways(c, clock) == TRUE
SweepDue(c, clock) == NumHours(clock - c.last_outdated_removed) >= 2
GetUpdatesSweep(c, clock, remove) ==
    IF SweepDue(c, clock) THEN RemoveOutdated(c, clock, remove) ELSE c

\* get_and_clear_removed_stops clearing the list without handing it out
GetAndClearRemovedStopsLost(c) ==
    [c |-> [c EXCEPT !.removed_stops = <<>>], removed |-> <<>>]
\* TimetableNews::get_and_clear_removed_stops: [c, removed]
GetAndClearRemovedStops(c) ==
    [c |-> [c EXCEPT !.removed_stops = <<>>], removed |-> c.removed_stops]

\* the sort key of TimetableNews::get_current (get_most_significant_time)
MostSignificantTime(stop, clock) ==
    LET event == IF IsSome(stop.departure) THEN stop.departure ELSE stop.arrival
    IN  IF IsSome(event)
        THEN UnwrapOr(IF IsSome(Unwrap(event).planned_time)
                      THEN Unwrap(event).planned_time ELSE Unwrap(event).changed_time, clock)
        ELSE clock

\* an insertion that leaves the list in the order the HashMap iterated in
SortedInsertAtEnd(sorted, x, clock) == Append(sorted, x)
\* slice::sort_by is stable: insertion of x after the last element that is not greater
RECURSIVE SortedInsert(_, _, _)
SortedInsert(sorted, x, clock) ==
    IF sorted = <<>> THEN <<x>>
    ELSE IF MostSignificantTime(sorted[Len(sorted)], clock) <= MostSignificantTime(x, clock)
         THEN Append(sorted, x)
         ELSE Append(SortedInsert(SubSeq(sorted, 1, Len(sorted) - 1), x, clock), sorted[Len(sorted)])

RECURSIVE StableSort(_, _, _)
StableSort(list, acc, clock) ==
    IF list = <<>> THEN acc
    ELSE StableSort(Tail(list), SortedInsert(acc, Head(list), clock), clock)

\* a snapshot that hands out every stop left after the eviction pass
CurrentOfEveryTracked(swept, clock, order) ==
    [c |-> swept,
     stops |-> StableSort([k \in 1..Len(order) |-> swept.stops[order[k]].stop], <<>>, clock)]
\* TimetableNews::get_current: [c, stops]; remove as for RemoveOutdated, order lists
\* the stops left in the order the HashMap iterates over them
CurrentOf(swept, clock, order) ==
    [c |-> swept,
     stops |-> StableSort(SelectSeq([k \in 1..Len(order) |-> swept.stops[order[k]].stop],
                                    LAMBDA stop : ~IsStopOutdated(stop, 2, clock)),
                          <<>>, clock)]
GetCurrent(c, clock, remove, order) ==
    CurrentOf(RemoveOutdated(c, clock, remove), clock, order)

(***************************************************************************)
(* Specification SpecMerge: Event::timetablestop_update on drawn inputs    *)
(***************************************************************************)
MergeIdle ==
    /\ mPc = "off" /\ mSelf = <<>> /\ mOld = <<>> /\ mOther = <<>> /\ mRes = FALSE
CacheIdle ==
    /\ cache = <<>> /\ cOp = "off" /\ cPrev = <<>> /\ cIn = <<>>
    /\ cOut = <<>> /\ cOps = 0 /\ cTicks = 0 /\ cSwept = <<>>
StitchIdle ==
    /\ tNews = <<>> /\ tTimetables = <<>> /\ tTrips = <<>> /\ tAddQueue = <<>>
    /\ tQueue = <<>> /\ tPc = "off" /\ tIdx = 0 /\ tPrio = <<>> /\ tNotPrio = <<>>
    /\ tLog = <<>> /\ tVisits = <<>> /\ tAdds = <<>> /\ tRequested = {} /\ tCycles = 0 /\ tTicks = 0

PathIdle ==
    /\ pPc = "off" /\ pEvent = <<>>

AliasIdle ==
    aPc = "off" /\ aTimetable = <<>> /\ aBefore = <<>> /\ aTrips = <<>>

LocksIdle ==
    lScenario = <<>> /\ lPc = <<>> /\ lHeld = <<>> /\ lQueue = <<>>

DriftIdle ==
    dEvent = <<>> /\ dReported = <<>> /\ dSince = 0 /\ dMerges = 0

LimitIdle ==
    rLimit = <<>> /\ rState = <<>> /\ rPc = <<>> /\ rRes = <<>> /\ rGranted = 0 /\ rRefillGap = <<>> /\ rCalls = 0 /\ rUpstream = 0 /\ rTicks = 0

CollectIdle ==
    supTick = <<>> /\ supOnError = "off" /\ supOnPanic = "off" /\ supPc = "off" /\ supResult = <<>> /\ supBackoff = 0 /\ supFails = 0 /\ supWaits = <<>>

mergeOff == <<cacheVars, stitchVars, pathVars, aliasVars, lockVars, driftVars, limitVars, collectVars, wall>>
cacheOff == <<mergeVars, stitchVars, pathVars, aliasVars, lockVars, driftVars, limitVars, collectVars>>
stitchOff == <<mergeVars, cacheVars, pathVars, aliasVars, lockVars, driftVars, limitVars, collectVars>>
pathOff == <<mergeVars, cacheVars, stitchVars, aliasVars, lockVars, driftVars, limitVars, collectVars, wall>>
aliasOff == <<mergeVars, cacheVars, stitchVars, pathVars, lockVars, driftVars, limitVars, collectVars, wall>>
locksOff == <<mergeVars, cacheVars, stitchVars, pathVars, aliasVars, driftVars, limitVars, collectVars, wall>>
driftOff == <<mergeVars, cacheVars, stitchVars, pathVars, aliasVars, lockVars, limitVars, collectVars, wall>>
limitOff == <<mergeVars, cacheVars, stitchVars, pathVars, aliasVars, lockVars, driftVars, collectVars>>
collectOff == <<mergeVars, cacheVars, stitchVars, pathVars, aliasVars, lockVars, driftVars, limitVars, wall>>

MergeTimes == {0, 30, 120, 300, 330, 420, 540}
MergePlatforms == {"1", "2"}
MergePaths == {<<>>, <<"A">>, <<"B">>, <<"A", "B">>}
Opt(S) == {None} \cup {Some(x) : x \in S}

\* a cached Event: derived fields computed, as fetch_plan and apply_updates store it
MergeCached ==
    { EventCalculateAll(RawEvent(pt, ct, pp, cp, <<"A">>, cpth, None, cs)) :
        pt \in Opt({0}), ct \in Opt(MergeTimes),
        pp \in Opt({"1"}), cp \in Opt(MergePlatforms),
        cpth \in Opt(MergePaths), cs \in Opt({"Planned", "Cancelled"}) }

\* an incoming Event of the known-changes feed
MergeIncoming ==
    { RawEvent(None, ct, None, cp, <<>>, cpth, None, cs) :
        ct \in Opt(MergeTimes), cp \in Opt(MergePlatforms),
        cpth \in Opt(MergePaths), cs \in Opt({"Planned", "Cancelled"}) }

InitMerge ==
    /\ mPc = "ready"
    /\ mSelf \in MergeCached
    /\ mOther \in MergeIncoming
    /\ mOld = mSelf
    /\ mRes = FALSE
    /\ wall = 0
    /\ CacheIdle
    /\ StitchIdle
    /\ PathIdle
    /\ AliasIdle
    /\ LocksIdle
    /\ DriftIdle
    /\ LimitIdle
    /\ CollectIdle

MergeApply ==
    /\ mPc = "ready"
    /\ mSelf' = UpdateEvent(mSelf, mOther).val
    /\ mRes' = UpdateEvent(mSelf, mOther).res
    /\ mPc' = "done"
    /\ UNCHANGED <<mOld, mOther>>
    /\ UNCHANGED mergeOff

NextMerge == MergeApply

(***************************************************************************)
(* Specification SpecCache: one station's TimetableNews driven by          *)
(* get_updates, get_current and get_and_clear_removed_stops, against an    *)
(* upstream whose plan is static and whose fetches may fail.               *)
(***************************************************************************)
MaxOps == 3
MaxTicks == 1

Id1 == StopId("T1", "D", 1)
Id2 == StopId("T2", "D", 1)
Id3 == StopId("T3", "D", 101)
FeedIds == {FullIdString(Id1), FullIdString(Id2), FullIdString(Id3)}

\* the plan feed: planned attributes only
Plan1 == TimetableStop(Id1,
            Some(RawEvent(Some(Minutes(50)), None, Some("1"), None, <<"A">>, None, None, None)),
            Some(RawEvent(Some(Minutes(65)), None, Some("1"), None, <<"B", "C">>, None, None, None)))
Plan2 == TimetableStop(Id2,
            None,
            Some(RawEvent(Some(Minutes(70)), None, Some("2"), None, <<"B">>, None, None, None)))

\* get_plan: the stops of the hourly slice that holds the instant t.  Plan1 arrives in
\* the first slice and departs in the second, so both slices list it.
PlanDb ==
    [t \in Nat |-> CASE t \div Hours(1) = 0 -> <<Plan1>>
                    [] t \div Hours(1) = 1 -> <<Plan1, Plan2>>
                    [] OTHER -> <<>>]

\* the known-changes feed: changed attributes, and planned ones for unplanned stops
Chg1Time == TimetableStop(Id1, None,
            Some(RawEvent(None, Some(Minutes(195)), None, None, <<>>, None, None, None)))
Chg1Platform == TimetableStop(Id1, None,
            Some(RawEvent(None, Some(Minutes(65)), None, Some("2"), <<>>, Some(<<"B">>), None, None)))
Chg2Arrival == TimetableStop(Id2,
            Some(RawEvent(Some(Minutes(68)), None, None, None, <<"A">>, Some(<<"A", "X">>), None, Some("Cancelled"))),
            None)
Chg2Time == TimetableStop(Id2, None,
            Some(RawEvent(None, Some(Minutes(71)), None, None, <<>>, None, None, None)))
Chg3Added == TimetableStop(Id3, None,
            Some(RawEvent(Some(Minutes(60)), None, Some("3"), None, <<"B">>, None, Some("Added"), None)))

ChangeBatches ==
    {<<>>, <<Chg1Time>>, <<Chg2Arrival>>, <<Chg3Added, Chg2Time>>,
     <<Chg1Platform, Chg2Time>>}

ChangesAnswers ==
    {[ok |-> TRUE, stops |-> b, err |-> "none"] : b \in ChangeBatches}
    \cup {[ok |-> FALSE, stops |-> <<>>, err |-> "RateLimitReached"]}

ClockSteps == {Minutes(190)}

\* the sequences that list every element of S once: the orders a HashMap may iterate in
Orders(S) ==
    {o \in [1..Cardinality(S) -> S] : \A a, b \in 1..Cardinality(S) : a # b => o[a] # o[b]}

\* the record of a call of remove_outdated made at clock by the operation by
Swept(swept, clock, by) ==
    [at |-> clock, by |-> by, before |-> swept.by, apart |-> clock - swept.at >= Hours(2)]

InitCache ==
    /\ wall = 0
    /\ cache = NewTimetable("S", <<>>, 0)
    /\ cOp = "new"
    /\ cPrev = cache
    /\ cIn = <<>>
    /\ cOut = <<>>
    /\ cOps = 0
    /\ cTicks = 0
    /\ cSwept = [at |-> wall, by |-> "new", before |-> "none", apart |-> TRUE]
    /\ MergeIdle
    /\ StitchIdle
    /\ PathIdle
    /\ AliasIdle
    /\ LocksIdle
    /\ DriftIdle
    /\ LimitIdle
    /\ CollectIdle

\* the wall wall advances between two operations
CacheTick ==
    /\ cTicks < MaxTicks
    /\ cOp # "tick"
    /\ \E d \in ClockSteps : wall' = wall + d
    /\ cTicks' = cTicks + 1
    /\ cOp' = "tick"
    /\ UNCHANGED <<cache, cPrev, cIn, cOut, cOps, cSwept>>
    /\ UNCHANGED cacheOff

\* how many plan slices fetch_plan asks for when none fails
SlicesDue(c, now) == PlanLoop(PlanDb, c.fetch_next, now, -1, 0, <<>>, "OkNoValues").fetched

\* TimetableNews::get_updates, r being what GetUpdatesFetch yields
CacheGetUpdatesEnd(r, fail_at, changes) ==
    /\ \E remove \in Orders(IF SweepDue(r.c, wall) THEN OutdatedIds(r.c, wall) ELSE {}) :
          cache' = GetUpdatesSweep(r.c, wall, remove)
    /\ cSwept' = IF SweepDue(r.c, wall) THEN Swept(cSwept, wall, "get_updates") ELSE cSwept
    /\ cOut' = r.result
    /\ cIn' = [fail_at |-> fail_at, plan_result |-> r.plan_result, changes |-> changes,
                after_plan |-> r.after_plan, after_apply |-> r.c, applied |-> r.applied,
                fetched |-> r.fetched, asked |-> r.asked]

CacheGetUpdates ==
    /\ cOps < MaxOps
    /\ \E fail_at \in {-1, 0, 1}, changes \in ChangesAnswers :
          /\ fail_at < SlicesDue(cache, wall)
          /\ CacheGetUpdatesEnd(GetUpdatesFetch(PlanDb, cache, wall, fail_at, "RequestError", changes),
                                fail_at, changes)
    /\ cPrev' = cache
    /\ cOp' = "get_updates"
    /\ cOps' = cOps + 1
    /\ UNCHANGED <<wall, cTicks>>
    /\ UNCHANGED cacheOff

CacheGetCurrentEnd(r) ==
    /\ cache' = r.c
    /\ cSwept' = Swept(cSwept, wall, "get_current")
    /\ cOut' = r.stops

CacheGetCurrent ==
    /\ cOps < MaxOps
    /\ \E remove \in Orders(OutdatedIds(cache, wall)) :
       \E order \in Orders(Tracked(cache) \ OutdatedIds(cache, wall)) :
          CacheGetCurrentEnd(GetCurrent(cache, wall, remove, order))
    /\ cPrev' = cache
    /\ cIn' = <<>>
    /\ cOp' = "get_current"
    /\ cOps' = cOps + 1
    /\ UNCHANGED <<wall, cTicks>>
    /\ UNCHANGED cacheOff

CacheDrainRemoved ==
    /\ cOps < MaxOps
    /\ cache' = GetAndClearRemovedStops(cache).c
    /\ cOut' = GetAndClearRemovedStops(cache).removed
    /\ cPrev' = cache
    /\ cIn' = <<>>
    /\ cOp' = "get_and_clear_removed_stops"
    /\ cOps' = cOps + 1
    /\ UNCHANGED <<wall, cTicks, cSwept>>
    /\ UNCHANGED cacheOff

NextCache ==
    \/ CacheTick
    \/ CacheGetUpdates
    \/ CacheGetCurrent
    \/ CacheDrainRemoved

(***************************************************************************)
(* Triptable (crates/deutsche_bahn/src/triptable.rs).  A station name is a *)
(* sequence of characters here, so that make_valid_station_name_key can    *)
(* be computed.                                                            *)
(***************************************************************************)
UpperCase == <<"S", "X", "Y", "Z", "Ä", "Ö", "Ü">>
LowerCase == <<"s", "x", "y", "z", "ä", "ö", "ü">>
\* char::to_lowercase on the letters of the model
ToLowercase(ch) ==
    IF \E k \in 1..Len(UpperCase) : UpperCase[k] = ch
    THEN LowerCase[CHOOSE k \in 1..Len(UpperCase) : UpperCase[k] = ch]
    ELSE ch
\* the chain of replace calls of make_valid_station_name_key, on one lowercase character
ReplaceChar(ch) ==
    CASE ch = "ö" -> <<"o", "e">>
      [] ch = "ä" -> <<"a", "e">>
      [] ch = "ü" -> <<"u", "e">>
      [] ch = "ß" -> <<"s", "s">>
      [] ch \in {"(", ")"} -> <<>>
      [] ch = " " -> <<"-">>
      [] OTHER -> <<ch>>
RECURSIVE MakeValidStationNameKey(_)
MakeValidStationNameKey(station_name) ==
    IF station_name = <<>> THEN <<>>
    ELSE ReplaceChar(ToLowercase(Head(station_name)))
            \o MakeValidStationNameKey(Tail(station_name))

\* TimetableNews::is_own_station_name
IsOwnStationName(c, name) ==
    \/ name = c.station_name
    \/ \E k \in 1..Len(c.station_name_aliases) : c.station_name_aliases[k] = name
    \/ MakeValidStationNameKey(name) = MakeValidStationNameKey(c.station_name)

\* InternalTripStop; stop is None or Some of the Arc of a station's stop
InternalTripStop(info, stop) == [info |-> info, stop |-> stop]
StopRef(station, c, fid) == [station |-> station, fid |-> fid, obj |-> c.stops[fid].obj]
Unfilled(path) == [k \in 1..Len(path) |-> InternalTripStop(path[k], None)]
OwnPathStop(stop, c) == ActualPathStop(StopStatus(stop), c.station_name)

\* the else branch of update's "if self.trips...contains_key(&trip_id)"
NewTrip(trip_id, stop, ref, c) ==
    [id |-> trip_id,
     stops |-> Unfilled(ArrivalPath(stop))
                 \o <<InternalTripStop(OwnPathStop(stop, c), Some(ref))>>
                 \o Unfilled(DeparturePath(stop)),
     last_updated |-> c.last_update]

\* should_update that no timestamp can make false
ShouldUpdateAlways(timetable_live_data_last_updated_at, trip_last_updated_at) == TRUE

\* should_update
ShouldUpdate(timetable_live_data_last_updated_at, trip_last_updated_at) ==
    IF IsSome(timetable_live_data_last_updated_at)
    THEN IF IsSome(trip_last_updated_at)
         THEN Unwrap(timetable_live_data_last_updated_at) >= Unwrap(trip_last_updated_at)
         ELSE TRUE
    ELSE FALSE

\* "build actual path WITH own stop"
DisplayPath(stop, c) == ArrivalPath(stop) \o <<OwnPathStop(stop, c)>> \o DeparturePath(stop)

\* an attachment that never attaches
SetStopNever(trip, i, ref, c) == trip

\* Vec::insert that overwrites the element at i
InsertOver(seq, i, x) == SubSeq(seq, 1, i) \o <<x>> \o SubSeq(seq, i + 2, Len(seq))

\* the body of "for actual_path_stop in actual_path", on w = [trip, i, broke]:
\* first the attachment to an unset entry at the own station ...
SetStop(trip, i, ref, c) ==
    IF /\ i < Len(trip.stops)
       /\ IsNone(trip.stops[i + 1].stop)
       /\ IsOwnStationName(c, trip.stops[i + 1].info.name)
    THEN [trip EXCEPT !.stops[i + 1].stop = Some(ref)]
    ELSE trip
InsertAt(seq, i, x) == SubSeq(seq, 1, i) \o <<x>> \o SubSeq(seq, i + 1, Len(seq))
StatusPatchedTrip(trip, i, actual_path_stop, c) ==
    [trip EXCEPT !.stops[i + 1].info.status = actual_path_stop.status,
                 !.last_updated = c.last_update]
StopInserted(trip, i, actual_path_stop, ref, c) ==
    [trip EXCEPT !.stops = InsertAt(@, i, InternalTripStop(actual_path_stop,
                                 IF actual_path_stop.name = c.station_name
                                 THEN Some(ref) ELSE None)),
                 !.last_updated = c.last_update]
\* ... then the patch of the entry of the same name, or the insertion
PathStopApplied(w, actual_path_stop, ref, c, should_update) ==
    IF w.i < Len(w.trip.stops) /\ actual_path_stop.name = w.trip.stops[w.i + 1].info.name
    THEN [trip |-> IF should_update
                   THEN StatusPatchedTrip(w.trip, w.i, actual_path_stop, c) ELSE w.trip,
          i |-> w.i + 1, broke |-> FALSE]
    ELSE IF should_update
    THEN IF w.i > Len(w.trip.stops)
         THEN [w EXCEPT !.broke = TRUE]
         ELSE [trip |-> StopInserted(w.trip, w.i, actual_path_stop, ref, c),
               i |-> w.i + 1, broke |-> FALSE]
    ELSE w
StopSet(w, ref, c) == [w EXCEPT !.trip = SetStop(w.trip, w.i, ref, c)]
RECURSIVE UpdateTripPath(_, _, _, _, _, _)
UpdateTripPath(w, actual_path, k, ref, c, should_update) ==
    IF k > Len(actual_path) \/ w.broke THEN w.trip
    ELSE UpdateTripPath(PathStopApplied(StopSet(w, ref, c), actual_path[k], ref, c, should_update),
                        actual_path, k + 1, ref, c, should_update)
\* the then branch of update's "if self.trips...contains_key(&trip_id)"
UpdateTrip(trip, stop, ref, c) ==
    UpdateTripPath([trip |-> trip, i |-> 0, broke |-> FALSE], DisplayPath(stop, c), 1, ref, c,
                   ShouldUpdate(c.last_update, trip.last_updated))

PutTrip(trips, trip_id, trip) ==
    [x \in DOMAIN trips \cup {trip_id} |-> IF x = trip_id THEN trip ELSE trips[x]]
\* the body of "for stop in current_stops"
StopStitched(trips, trip_id, stop, ref, c) ==
    IF trip_id \in DOMAIN trips
    THEN PutTrip(trips, trip_id, UpdateTrip(trips[trip_id], stop, ref, c))
    ELSE PutTrip(trips, trip_id, NewTrip(trip_id, stop, ref, c))
Logged(acc, new_trips, station, c, fid, trip_id) ==
    [trips |-> new_trips,
     log |-> Append(acc.log,
                    [station |-> station, stop |-> c.stops[fid].stop,
                     ref |-> StopRef(station, c, fid), ts |-> c.last_update,
                     before |-> IF trip_id \in DOMAIN acc.trips
                                THEN Some(acc.trips[trip_id]) ELSE None,
                     after |-> new_trips[trip_id]])]
StitchOne(acc, station, c, fid, trip_id) ==
    Logged(acc, StopStitched(acc.trips, trip_id, c.stops[fid].stop, StopRef(station, c, fid), c),
           station, c, fid, trip_id)
\* "for stop in current_stops", current_stops in the order the HashMap yields them
RECURSIVE StitchStops(_, _, _, _, _)
StitchStops(acc, station, c, current_stops, k) ==
    IF k > Len(current_stops) THEN acc
    ELSE StitchStops(StitchOne(acc, station, c, current_stops[k],
                               TripIdString(c.stops[current_stops[k]].stop.id)),
                     station, c, current_stops, k + 1)

(***************************************************************************)
(* SpecStitch: a Triptable, the stations S and Y onboarded into it, their  *)
(* feeds, and the cycles of Triptable::update                              *)
(***************************************************************************)
MaxCycles == 2
MaxStitchTicks == 1

NameX == <<"X">>
NameS == <<"S">>
NameY == <<"Y">>
NameZ == <<"Z">>
StitchStations == {"s", "y"}
\* the name get_stations resolves the station to
StationName(station) == IF station = "s" THEN NameS ELSE NameY
StationAliases(station) == <<>>
AddOutcomes == {"ok", "StationDoesNotExist", "RateLimitReached"}

\* trip T1 runs X, S, Y; trip T2 starts at S, runs to Z and ends at S again
IdS1 == StopId("T1", "D", 2)
IdS2 == StopId("T2", "D", 1)
IdY1 == StopId("T1", "D", 3)
PlanS1 == TimetableStop(IdS1,
            Some(RawEvent(Some(Minutes(10)), None, Some("1"), None, <<NameX>>, None, None, None)),
            Some(RawEvent(Some(Minutes(12)), None, Some("1"), None, <<NameY>>, None, None, None)))
PlanS2 == TimetableStop(IdS2,
            None,
            Some(RawEvent(Some(Minutes(20)), None, Some("2"), None, <<NameZ, NameS>>, None, None, None)))
PlanY1 == TimetableStop(IdY1,
            Some(RawEvent(Some(Minutes(30)), None, Some("1"), None, <<NameX, NameS>>, None, None, None)),
            None)
StitchPlan(station) ==
    [t \in Nat |-> IF t \div Hours(1) # 0 THEN <<>>
                   ELSE IF station = "s" THEN <<PlanS1, PlanS2>> ELSE <<PlanY1>>]
\* S learns that T1 does not depart; Y learns that T1 calls at Z between X and S
ChgSCancel == TimetableStop(IdS1, None,
            Some(RawEvent(None, None, None, None, <<>>, None, None, Some("Cancelled"))))
ChgYPath == TimetableStop(IdY1,
            Some(RawEvent(None, None, None, None, <<>>, Some(<<NameX, NameZ, NameS>>), None, None)),
            None)
StitchChanges(station) ==
    { [ok |-> TRUE, stops |-> <<>>, err |-> "none"],
      [ok |-> TRUE, stops |-> IF station = "s" THEN <<ChgSCancel>> ELSE <<ChgYPath>>,
       err |-> "none"],
      [ok |-> FALSE, stops |-> <<>>, err |-> "RateLimitReached"] }

PutKey(f, key, value) == [x \in DOMAIN f \cup {key} |-> IF x = key THEN value ELSE f[x]]

InitStitch ==
    /\ wall = 0
    /\ tNews = <<>> /\ tTimetables = <<>> /\ tTrips = <<>> /\ tAddQueue = <<>>
    /\ tQueue = <<>> /\ tPc = "idle" /\ tIdx = 0 /\ tPrio = <<>> /\ tNotPrio = <<>>
    /\ tLog = <<>> /\ tVisits = <<>> /\ tAdds = <<>> /\ tRequested = {} /\ tCycles = 0 /\ tTicks = 0
    /\ MergeIdle
    /\ CacheIdle
    /\ PathIdle
    /\ AliasIdle
    /\ LocksIdle
    /\ DriftIdle
    /\ LimitIdle
    /\ CollectIdle

\* try_add_station and its callers queueing the station whatever the error is
TryAddStationAnyErrorQueued(t, station, outcome) ==
    IF outcome = "ok"
    THEN [t EXCEPT !.news = PutKey(@, station,
                                NewTimetable(StationName(station), StationAliases(station), wall)),
                   !.timetables = PutKey(@, MakeValidStationNameKey(StationName(station)), station),
                   !.queue = Append(@, station)]
    ELSE [t EXCEPT !.add_to_queue = Append(@, station)]
\* try_add_station on t = [news, timetables, queue, add_to_queue], get_stations
\* answering outcome; and what add_station / add_stations do with its error
TryAddStation(t, station, outcome) ==
    IF outcome = "ok"
    THEN [t EXCEPT !.news = PutKey(@, station,
                                NewTimetable(StationName(station), StationAliases(station), wall)),
                   !.timetables = PutKey(@, MakeValidStationNameKey(StationName(station)), station),
                   !.queue = Append(@, station)]
    ELSE IF outcome = "StationDoesNotExist" THEN t
    ELSE [t EXCEPT !.add_to_queue = Append(@, station)]
RECURSIVE AddStations(_, _, _, _)
AddStations(t, stations, outcomes, k) ==
    IF k > Len(stations) THEN t
    ELSE AddStations(TryAddStation(t, stations[k], outcomes[k]), stations, outcomes, k + 1)
Added(t) ==
    /\ tNews' = t.news
    /\ tTimetables' = t.timetables
    /\ tQueue' = t.queue
    /\ tAddQueue' = t.add_to_queue

\* Triptable::add_station, called while no update holds the read guard of the queue
AddStation ==
    /\ tPc \in {"idle", "end"}
    /\ \E station \in StitchStations \ tRequested, outcome \in AddOutcomes :
          /\ Added(TryAddStation([news |-> tNews, timetables |-> tTimetables,
                                  queue |-> tQueue, add_to_queue |-> tAddQueue],
                                 station, outcome))
          /\ tRequested' = tRequested \cup {station}
          /\ tAdds' = <<[station |-> station, outcome |-> outcome]>>
    /\ tLog' = <<>>
    /\ UNCHANGED <<wall, tTrips, tPc, tIdx, tPrio, tNotPrio, tVisits, tCycles, tTicks>>
    /\ UNCHANGED stitchOff

\* Triptable::update up to its for loop: the queued stations are added again
UpdateBegin ==
    /\ tPc = "idle"
    /\ tCycles < MaxCycles
    /\ \E outcomes \in [1..Len(tAddQueue) -> AddOutcomes] :
          /\ Added(AddStations([news |-> tNews, timetables |-> tTimetables,
                                queue |-> tQueue, add_to_queue |-> <<>>],
                               tAddQueue, outcomes, 1))
          /\ tAdds' = [k \in 1..Len(tAddQueue) |->
                          [station |-> tAddQueue[k], outcome |-> outcomes[k]]]
    /\ tPc' = IF tQueue' = <<>> THEN "end" ELSE "loop"
    /\ tIdx' = 1
    /\ tPrio' = <<>>
    /\ tNotPrio' = <<>>
    /\ tLog' = <<>>
    /\ tVisits' = <<>>
    /\ tCycles' = tCycles + 1
    /\ UNCHANGED <<wall, tTrips, tRequested, tTicks>>
    /\ UNCHANGED stitchOff

\* one iteration of "for timetable in self.timetables_update_queue.read().await.iter()"
StationStitched(station, c, acc) ==
    /\ tNews' = [tNews EXCEPT ![station] = c]
    /\ tTrips' = acc.trips
    /\ tLog' = acc.log
StationUpdated(station, r) ==
    /\ \E remove \in Orders(IF SweepDue(r.c, wall) THEN OutdatedIds(r.c, wall) ELSE {}) :
       \E current_stops \in Orders(Tracked(GetUpdatesSweep(r.c, wall, remove))) :
          StationStitched(station, GetUpdatesSweep(r.c, wall, remove),
                          StitchStops([trips |-> tTrips, log |-> <<>>], station,
                                      GetUpdatesSweep(r.c, wall, remove), current_stops, 1))
    /\ tPrio' = IF r.result.kind \in {"ErrButValues", "Err"} THEN Append(tPrio, station) ELSE tPrio
    /\ tNotPrio' = IF r.result.kind \in {"Ok", "OkNoValues"}
                   THEN Append(tNotPrio, station) ELSE tNotPrio
    /\ tVisits' = Append(tVisits, [station |-> station, kind |-> r.result.kind,
                                   removed |-> GetAndClearRemovedStops(tNews[station]).removed])
StitchSlicesDue(station, c) ==
    PlanLoop(StitchPlan(station), c.fetch_next, wall, -1, 0, <<>>, "OkNoValues").fetched
UpdateStation ==
    /\ tPc = "loop"
    /\ \E fail_at \in {-1, 0}, changes \in StitchChanges(tQueue[tIdx]) :
          /\ fail_at < StitchSlicesDue(tQueue[tIdx], tNews[tQueue[tIdx]])
          /\ StationUpdated(tQueue[tIdx],
                 GetUpdatesFetch(StitchPlan(tQueue[tIdx]),
                                 GetAndClearRemovedStops(tNews[tQueue[tIdx]]).c,
                                 wall, fail_at, "RequestError", changes))
    /\ tIdx' = tIdx + 1
    /\ tPc' = IF tIdx = Len(tQueue) THEN "end" ELSE "loop"
    /\ UNCHANGED <<wall, tTimetables, tAddQueue, tQueue, tAdds, tRequested, tCycles, tTicks>>
    /\ UNCHANGED stitchOff

\* "update update queue" with the two lists appended the other way round
UpdateEndNotPrioFirst ==
    /\ tPc = "end"
    /\ tQueue' = tNotPrio \o tPrio
    /\ tPc' = "idle"
    /\ tLog' = <<>>
    /\ tAdds' = <<>>
    /\ UNCHANGED <<wall, tNews, tTimetables, tTrips, tAddQueue, tIdx, tPrio, tNotPrio,
                   tVisits, tRequested, tCycles, tTicks>>
    /\ UNCHANGED stitchOff

\* "update update queue"
UpdateEnd ==
    /\ tPc = "end"
    /\ tQueue' = tPrio \o tNotPrio
    /\ tPc' = "idle"
    /\ tLog' = <<>>
    /\ tAdds' = <<>>
    /\ UNCHANGED <<wall, tNews, tTimetables, tTrips, tAddQueue, tIdx, tPrio, tNotPrio,
                   tVisits, tRequested, tCycles, tTicks>>
    /\ UNCHANGED stitchOff

\* time passes between two calls of update: a minute, or long enough for the stops of
\* the first hour to be outdated
StitchClockSteps == {Minutes(1), Minutes(190)}
StitchTick ==
    /\ tPc = "idle"
    /\ tTicks < MaxStitchTicks
    /\ \E step \in StitchClockSteps : wall' = wall + step
    /\ tTicks' = tTicks + 1
    /\ tLog' = <<>>
    /\ tAdds' = <<>>
    /\ UNCHANGED <<tNews, tTimetables, tTrips, tAddQueue, tQueue, tPc, tIdx, tPrio, tNotPrio,
                   tVisits, tRequested, tCycles>>
    /\ UNCHANGED stitchOff

NextStitch ==
    \/ AddStation
    \/ UpdateBegin
    \/ UpdateStation
    \/ UpdateEnd
    \/ StitchTick

(***************************************************************************)
(* Specification SpecPath: Event::calculate_actual_path on drawn paths     *)
(***************************************************************************)
MaxPathLen == 3
PathStations == {"A", "B", "C", "X"}
Paths == UNION {[1..n -> PathStations] : n \in 0..MaxPathLen}

InitPath ==
    /\ pPc = "ready"
    /\ \E planned \in Paths, changed \in Opt(Paths) :
          pEvent = RawEvent(None, None, None, None, planned, changed, None, None)
    /\ wall = 0
    /\ MergeIdle
    /\ CacheIdle
    /\ StitchIdle
    /\ AliasIdle
    /\ LocksIdle
    /\ DriftIdle
    /\ LimitIdle
    /\ CollectIdle

PathCalculate ==
    /\ pPc = "ready"
    /\ pEvent' = CalculateActualPath(pEvent)
    /\ pPc' = "done"
    /\ UNCHANGED pathOff

NextPath == PathCalculate

(***************************************************************************)
(* Specification SpecAlias: the body of "for stop in current_stops" of     *)
(* Triptable::update for the stop of station S of a trip that the stop of  *)
(* station Y has created, Y's paths naming S one way or another            *)
(***************************************************************************)
\* S as registered: its station name and the alias given to add_station
AliasOfS == <<"S", "h">>
\* the names under which the path of another station's stop may list S: the station
\* name itself, a spelling with the same name key, the registered alias
NamesOfS == {NameS, <<"s">>, AliasOfS}
AliasStamps == {None, Some(5), Some(10)}

\* Y's TimetableNews holding its stop of T1, which arrives over S
AliasTimetableY(arrival_path, last_update) ==
    InsertNew([NewTimetable(NameY, <<>>, 0) EXCEPT !.last_update = last_update],
              StopCalculateAll(TimetableStop(IdY1,
                  Some(RawEvent(Some(Minutes(30)), None, Some("1"), None, arrival_path,
                                None, None, None)),
                  None)))
\* S's TimetableNews holding its stop of T1, which goes on to Y
AliasTimetableS(arrival_path, departure_path, last_update) ==
    InsertNew([NewTimetable(NameS, <<AliasOfS>>, 0) EXCEPT !.last_update = last_update],
              StopCalculateAll(TimetableStop(IdS1,
                  Some(RawEvent(Some(Minutes(20)), None, Some("1"), None, arrival_path,
                                None, None, None)),
                  Some(RawEvent(Some(Minutes(21)), None, Some("1"), None, departure_path,
                                None, None, None)))))
\* Triptable.trips after Y's stop has been stitched into the empty table
TripsCreatedBy(c) ==
    StopStitched(<<>>, TripIdString(IdY1), c.stops[FullIdString(IdY1)].stop,
                 StopRef("y", c, FullIdString(IdY1)), c)

InitAlias ==
    /\ aPc = "ready"
    /\ \E name \in NamesOfS, before \in {<<>>, <<NameX>>}, stamp \in AliasStamps :
          aBefore = TripsCreatedBy(AliasTimetableY(before \o <<name>>, stamp))
    /\ \E arrival_path \in {<<>>, <<NameX>>}, departure_path \in {<<>>, <<NameY>>},
          stamp \in AliasStamps :
          aTimetable = AliasTimetableS(arrival_path, departure_path, stamp)
    /\ aTrips = aBefore
    /\ wall = 0
    /\ MergeIdle
    /\ CacheIdle
    /\ StitchIdle
    /\ PathIdle
    /\ LocksIdle
    /\ DriftIdle
    /\ LimitIdle
    /\ CollectIdle

AliasStitch ==
    /\ aPc = "ready"
    /\ aTrips' = StopStitched(aTrips, TripIdString(IdS1),
                              aTimetable.stops[FullIdString(IdS1)].stop,
                              StopRef("s", aTimetable, FullIdString(IdS1)), aTimetable)
    /\ aPc' = "done"
    /\ UNCHANGED <<aTimetable, aBefore>>
    /\ UNCHANGED aliasOff

NextAlias == AliasStitch

(***************************************************************************)
(* Specification SpecLocks: the RwLocks taken by one Triptable::update, by *)
(* a TimetableNews::get_current on the station it is updating, by a        *)
(* Triptable::get_trip on the trip it is stitching and by a                *)
(* Triptable::add_station, running as concurrent tokio tasks.              *)
(*                                                                         *)
(* Each call is the sequence of its read().await, write().await, guard     *)
(* drops and network awaits, in program order.  A guard lives as long as   *)
(* Rust keeps it: to the end of the statement or of the `if` condition     *)
(* that creates it as a temporary, to the end of the whole `if let` or     *)
(* `for` whose scrutinee creates it, to the end of the block for a `let`.  *)
(* The timetable has one stop and the trip one stop, so the lock "stop"    *)
(* stands for every stop lock and "trip" for every trip lock: merging      *)
(* locks can add waiting, never remove it.                                 *)
(*                                                                         *)
(* tokio::sync::RwLock is fair: waiters are served first in, first out,    *)
(* and a read().await that arrives behind a queued write().await waits     *)
(* behind it.                                                              *)
(***************************************************************************)
Tasks == {"update", "get_current", "get_trip", "add_station"}

Locks == {"add_stations_queue", "timetables", "timetables_update_queue", "trips", "trip",
          "stops", "stop", "fetch_next", "last_update", "last_outdated_removed",
          "removed_stops", "unapplied_known_changes_cache"}

Acquire(lock, mode) == [op |-> "acquire", lock |-> lock, mode |-> mode]
Drop(lock) == [op |-> "drop", lock |-> lock, mode |-> "-"]
Fetch == [op |-> "fetch", lock |-> "-", mode |-> "-"]

\* a statement, or an `if` condition, that takes a guard as a temporary
Statement(lock, mode) == <<Acquire(lock, mode), Drop(lock)>>

LocksOfGetAndClearRemovedStops == Statement("removed_stops", "write")

\* fetch_next is held over the fetches of the while loop
LocksOfFetchPlan(fetches) ==
    <<Acquire("fetch_next", "write")>> \o [i \in 1..fetches |-> Fetch]
        \o <<Drop("fetch_next")>> \o Statement("stops", "write")

LocksOfGetKnownChanges(fetched) ==
    <<Fetch>> \o (IF fetched THEN Statement("last_update", "write") ELSE <<>>)

LocksOfApplyUpdatesStopFirst(known) ==
    (IF known THEN <<Acquire("stop", "write")>> ELSE <<>>)
        \o <<Acquire("stops", "write"), Drop("stops")>>
        \o (IF known THEN <<Drop("stop")>> ELSE <<>>)
        \o Statement("unapplied_known_changes_cache", "write")

\* stops is held over the for loop; known: the change is for a tracked stop
LocksOfApplyUpdates(known) ==
    <<Acquire("stops", "write")>>
        \o (IF known THEN Statement("stop", "write") ELSE <<>>)
        \o <<Drop("stops")>>
        \o Statement("unapplied_known_changes_cache", "write")

\* outdated: the stop is older than REMOVE_STOP_AFTER and is removed
LocksOfRemoveOutdated(outdated) ==
    <<Acquire("stops", "read")>>
        \o Statement("stop", "read") \o Statement("stop", "read")
        \o <<Drop("stops")>>
        \o <<Acquire("stops", "write")>>
        \o (IF outdated THEN Statement("stop", "read") ELSE <<>>)
        \o <<Drop("stops")>>
        \o Statement("removed_stops", "write")
        \o Statement("last_outdated_removed", "write")

\* sc.fetches plan fetches; sc.fetched: the changes feed answered; sc.sweep: the last
\* sweep is two hours old
LocksOfGetUpdates(sc) ==
    Statement("last_update", "read")
        \o LocksOfFetchPlan(sc.fetches)
        \o LocksOfGetKnownChanges(sc.fetched)
        \o (IF sc.fetched
            THEN LocksOfApplyUpdates(sc.known)
            ELSE IF sc.fetches > 0
                 THEN Statement("unapplied_known_changes_cache", "write")
                          \o LocksOfApplyUpdates(sc.known)
                 ELSE <<>>)
        \o Statement("last_outdated_removed", "read")
        \o (IF sc.sweep THEN LocksOfRemoveOutdated(sc.outdated) ELSE <<>>)

LocksOfGetCurrent(outdated) ==
    LocksOfRemoveOutdated(outdated)
        \o <<Acquire("stops", "read")>> \o Statement("stop", "read") \o <<Drop("stops")>>
        \o Statement("last_update", "read")

\* both guards are temporaries of the `if let`, the inner one of its tail expression
LocksOfGetTrip ==
    <<Acquire("trips", "read"), Acquire("trip", "read")>> \o Statement("stop", "read")
        \o <<Drop("trip"), Drop("trips")>>

LocksOfTryAddStation(found) ==
    <<Fetch>> \o (IF found
                  THEN Statement("timetables", "write")
                           \o Statement("timetables_update_queue", "write")
                  ELSE <<>>)

LocksOfAddStation(found) ==
    LocksOfTryAddStation(found)
        \o (IF found THEN <<>> ELSE Statement("add_stations_queue", "write"))

\* queued: add_stations_queue holds one station
LocksOfAddStations(queued) ==
    (IF queued THEN LocksOfTryAddStation(TRUE) ELSE <<>>)
        \o Statement("add_stations_queue", "write")

\* `let line = if let Some(arrival) = &stop.read().await.arrival { .. } else if let
\* Some(departure) = &stop.read().await.departure { .. }`: the guard of the first
\* scrutinee lives to the end of the `if let`, over its else branch
LocksOfLine(departure_only) ==
    <<Acquire("stop", "read")>>
        \o (IF departure_only THEN Statement("stop", "read") ELSE <<>>)
        \o <<Drop("stop")>>

\* the stop's trip is in trips: one entry of the actual path is attached and patched
LocksOfStopAttached ==
    Statement("trips", "read") \o Statement("trip", "read")
        \o Statement("stop", "read") \o Statement("stop", "read") \o Statement("stop", "read")
        \o Statement("trip", "read")
        \o Statement("trip", "read") \o Statement("trip", "write")
        \o Statement("trip", "read") \o Statement("trip", "read")
        \o Statement("trip", "write") \o Statement("trip", "write")

\* the stop's trip is not in trips
LocksOfStopCreated ==
    Statement("stop", "read") \o Statement("stop", "read") \o Statement("stop", "read")
        \o Statement("trips", "write")

\* one update over a queue of one timetable with one stop; the read guard of
\* timetables_update_queue is a temporary of the `for` and lives over the loop
LocksOfUpdate(sc) ==
    Statement("add_stations_queue", "write")
        \o LocksOfAddStations(sc.queued)
        \o <<Acquire("timetables_update_queue", "read")>>
        \o LocksOfGetAndClearRemovedStops
        \o LocksOfGetUpdates(sc)
        \o Statement("last_update", "read")
        \o Statement("stops", "read")
        \o Statement("stop", "read")
        \o LocksOfLine(sc.departure_only)
        \o Statement("stop", "read")
        \o Statement("trips", "read")
        \o (IF sc.exists THEN LocksOfStopAttached ELSE LocksOfStopCreated)
        \o <<Drop("timetables_update_queue")>>
        \o Statement("timetables_update_queue", "write")

\* The branches the four calls take: every branch of every call is in one scenario
\* at least, and each scenario runs under every interleaving.
MaxFetches == 1
LockScenarios ==
    {[fetches |-> MaxFetches, fetched |-> TRUE, known |-> FALSE, sweep |-> FALSE,
      departure_only |-> FALSE, exists |-> TRUE, queued |-> FALSE, outdated |-> FALSE,
      found |-> FALSE],
     [fetches |-> MaxFetches, fetched |-> FALSE, known |-> TRUE, sweep |-> TRUE,
      departure_only |-> TRUE, exists |-> FALSE, queued |-> TRUE, outdated |-> TRUE,
      found |-> TRUE],
     [fetches |-> 0, fetched |-> FALSE, known |-> FALSE, sweep |-> TRUE,
      departure_only |-> TRUE, exists |-> TRUE, queued |-> FALSE, outdated |-> FALSE,
      found |-> TRUE]}

\* scenario -> task -> the lock operations and awaits of its call, in program order
LockPrograms ==
    [sc \in LockScenarios |->
        [task \in Tasks |->
            CASE task = "update" -> LocksOfUpdate(sc)
              [] task = "get_current" -> LocksOfGetCurrent(sc.outdated)
              [] task = "get_trip" -> LocksOfGetTrip
              [] task = "add_station" -> LocksOfAddStation(sc.found)]]

Finished(task) == lPc[task] > Len(LockPrograms[lScenario][task])
Instruction(task) == LockPrograms[lScenario][task][lPc[task]]
\* the task is inside a read().await or write().await that has not returned
Waiting(task) ==
    /\ ~Finished(task)
    /\ Instruction(task).op = "acquire"
    /\ \E i \in 1..Len(lQueue[Instruction(task).lock]) :
           lQueue[Instruction(task).lock][i][1] = task

\* tokio::sync::RwLock: any number of read guards, or one write guard
Compatible(mode, held) ==
    IF mode = "read" THEN \A i \in 1..Len(held) : held[i][2] = "read" ELSE held = <<>>

\* the first guard of the task on the lock dropped
WithoutGuardOf(held, task) ==
    LET i == CHOOSE i \in 1..Len(held) :
                 held[i][1] = task /\ \A j \in 1..(i - 1) : held[j][1] # task
    IN  SubSeq(held, 1, i - 1) \o SubSeq(held, i + 1, Len(held))

InitLocks ==
    /\ lScenario \in LockScenarios
    /\ lPc = [task \in Tasks |-> 1]
    /\ lHeld = [lock \in Locks |-> <<>>]
    /\ lQueue = [lock \in Locks |-> <<>>]
    /\ wall = 0
    /\ MergeIdle
    /\ CacheIdle
    /\ StitchIdle
    /\ PathIdle
    /\ AliasIdle
    /\ DriftIdle
    /\ LimitIdle
    /\ CollectIdle

\* read().await or write().await that finds the lock free for its mode and nobody waiting
LockAcquire(task) ==
    /\ ~Finished(task) /\ ~Waiting(task)
    /\ Instruction(task).op = "acquire"
    /\ LET lock == Instruction(task).lock
           mode == Instruction(task).mode
       IN  /\ lQueue[lock] = <<>>
           /\ Compatible(mode, lHeld[lock])
           /\ lHeld' = [lHeld EXCEPT ![lock] = Append(@, <<task, mode>>)]
    /\ lPc' = [lPc EXCEPT ![task] = @ + 1]
    /\ UNCHANGED <<lScenario, lQueue>>
    /\ UNCHANGED locksOff

\* read().await or write().await that has to wait
LockWait(task) ==
    /\ ~Finished(task) /\ ~Waiting(task)
    /\ Instruction(task).op = "acquire"
    /\ LET lock == Instruction(task).lock
           mode == Instruction(task).mode
       IN  /\ ~(lQueue[lock] = <<>> /\ Compatible(mode, lHeld[lock]))
           /\ lQueue' = [lQueue EXCEPT ![lock] = Append(@, <<task, mode>>)]
    /\ UNCHANGED <<lScenario, lPc, lHeld>>
    /\ UNCHANGED locksOff

\* the first waiter is given the lock as soon as the guards alive allow its mode
LockGrant(lock) ==
    /\ lQueue[lock] # <<>>
    /\ Compatible(Head(lQueue[lock])[2], lHeld[lock])
    /\ lHeld' = [lHeld EXCEPT ![lock] = Append(@, Head(lQueue[lock]))]
    /\ lQueue' = [lQueue EXCEPT ![lock] = Tail(@)]
    /\ lPc' = [lPc EXCEPT ![Head(lQueue[lock])[1]] = @ + 1]
    /\ UNCHANGED lScenario
    /\ UNCHANGED locksOff

\* a guard goes out of scope
LockDrop(task) ==
    /\ ~Finished(task)
    /\ Instruction(task).op = "drop"
    /\ lHeld' = [lHeld EXCEPT ![Instruction(task).lock] = WithoutGuardOf(@, task)]
    /\ lPc' = [lPc EXCEPT ![task] = @ + 1]
    /\ UNCHANGED <<lScenario, lQueue>>
    /\ UNCHANGED locksOff

\* a pending network fetch returns, with an answer or an error
FetchReturns(task) ==
    /\ ~Finished(task)
    /\ Instruction(task).op = "fetch"
    /\ lPc' = [lPc EXCEPT ![task] = @ + 1]
    /\ UNCHANGED <<lScenario, lHeld, lQueue>>
    /\ UNCHANGED locksOff

NextLocks ==
    \/ \E task \in Tasks : LockAcquire(task)
    \/ \E task \in Tasks : LockWait(task)
    \/ \E lock \in Locks : LockGrant(lock)
    \/ \E task \in Tasks : LockDrop(task)
    \/ \E task \in Tasks : FetchReturns(task)

(***************************************************************************)
(* Specification SpecDrift: one tracked Event that has a planned time,     *)
(* merged with one change of the known-changes feed after another          *)
(***************************************************************************)
MaxMerges == 3
DriftPlanned == Minutes(0)
DriftTimes == {Minutes(4), Minutes(8), Minutes(10), Minutes(11), Minutes(12)}

\* the tracked Event, as fetch_plan or apply_updates stored it
DriftCached ==
    { EventCalculateAll(RawEvent(Some(DriftPlanned), ct, Some("1"), None, <<"A">>, None, None, None)) :
        ct \in Opt(DriftTimes) }

\* an incoming Event of the known-changes feed
DriftIncoming ==
    { RawEvent(None, ct, None, cp, <<>>, None, None, None) :
        ct \in Opt(DriftTimes), cp \in Opt({"1", "2"}) }

InitDrift ==
    /\ dEvent \in DriftCached
    /\ dReported = dEvent.changed_time
    /\ dSince = 0
    /\ dMerges = 0
    /\ wall = 0
    /\ MergeIdle
    /\ CacheIdle
    /\ StitchIdle
    /\ PathIdle
    /\ AliasIdle
    /\ LocksIdle
    /\ LimitIdle
    /\ CollectIdle

\* Event::timetablestop_update of the tracked Event with one incoming Event, as
\* TimetableStop::timetablestop_update and apply_updates call it; the bool it returns
\* decides whether the stop goes into the updated list
DriftMerge(other) ==
    /\ dMerges < MaxMerges
    /\ dEvent' = UpdateEvent(dEvent, other).val
    /\ dReported' = IF UpdateEvent(dEvent, other).res THEN dEvent'.changed_time ELSE dReported
    /\ dSince' = IF UpdateEvent(dEvent, other).res THEN 0 ELSE dSince + 1
    /\ dMerges' = dMerges + 1
    /\ UNCHANGED driftOff

NextDrift == \E other \in DriftIncoming : DriftMerge(other)

(***************************************************************************)
(* Specification SpecLimit: BahnApiClient::get called by concurrent tasks, *)
(* up to the point where the request is sent                               *)
(***************************************************************************)
MaxRequests == 4
MaxLimitTicks == 3
LimitTasks == {"t1", "t2"}
RateLimits == {None, Some(0), Some(1), Some(2)}
LimitClockSteps == {30, 60}

\* BahnApiClient::new
NewClientState(rate_limit_per_minute, now) ==
    [avaliable_requests |-> UnwrapOr(rate_limit_per_minute, 0), last_refill |-> now]

\* a refill on every call
RefillDueAlways(now, last_refill) == TRUE
\* "minutes_since_last_request >= 1"
RefillDue(now, last_refill) == NumMinutes(now - last_refill) >= 1

\* no task holds the write guard of BahnApiClient.state
StateLockFree == \A task \in LimitTasks : rPc[task] \notin {"locked", "refill", "take"}

InitLimit ==
    /\ rLimit \in RateLimits
    /\ wall = 0
    /\ rState = NewClientState(rLimit, wall)
    /\ rPc = [task \in LimitTasks |-> "idle"]
    /\ rRes = [task \in LimitTasks |-> [found |-> None, result |-> "none"]]
    /\ rGranted = 0
    /\ rRefillGap = None
    /\ rCalls = 0
    /\ rUpstream = 0
    /\ rTicks = 0
    /\ MergeIdle
    /\ CacheIdle
    /\ StitchIdle
    /\ PathIdle
    /\ AliasIdle
    /\ LocksIdle
    /\ DriftIdle
    /\ CollectIdle

\* get is called: without a configured limit try_decrement_avaliable_requests returns
\* Ok at once, with one it asks for the write guard of the state
LimitCall(task) ==
    /\ rPc[task] = "idle"
    /\ rCalls < MaxRequests
    /\ rCalls' = rCalls + 1
    /\ rPc' = [rPc EXCEPT ![task] = IF IsSome(rLimit) THEN "waiting" ELSE "upstream"]
    /\ rRes' = [rRes EXCEPT ![task] = [found |-> None,
                                       result |-> IF IsSome(rLimit) THEN "none" ELSE "Ok"]]
    /\ UNCHANGED <<wall, rLimit, rState, rGranted, rRefillGap, rUpstream, rTicks>>
    /\ UNCHANGED limitOff

\* "let mut state = self.state.write().await"
LimitLock(task) ==
    /\ rPc[task] = "waiting"
    /\ StateLockFree
    /\ rPc' = [rPc EXCEPT ![task] = "locked"]
    /\ UNCHANGED <<wall, rLimit, rState, rRes, rGranted, rRefillGap, rCalls, rUpstream, rTicks>>
    /\ UNCHANGED limitOff

\* the first Local::now() and the test of the minutes since the last refill
LimitCheck(task) ==
    /\ rPc[task] = "locked"
    /\ rPc' = [rPc EXCEPT ![task] = IF RefillDue(wall, rState.last_refill)
                                    THEN "refill" ELSE "take"]
    /\ UNCHANGED <<wall, rLimit, rState, rRes, rGranted, rRefillGap, rCalls, rUpstream, rTicks>>
    /\ UNCHANGED limitOff

\* the refill, stamped with the second Local::now()
LimitRefill(task) ==
    /\ rPc[task] = "refill"
    /\ rState' = [avaliable_requests |-> Unwrap(rLimit), last_refill |-> wall]
    /\ rRefillGap' = Some(wall - rState.last_refill)
    /\ rGranted' = 0
    /\ rPc' = [rPc EXCEPT ![task] = "take"]
    /\ UNCHANGED <<wall, rLimit, rRes, rCalls, rUpstream, rTicks>>
    /\ UNCHANGED limitOff

\* "if state.avaliable_requests != 0 { .. -= 1 } else { return Err(RateLimitReached) }",
\* the guard dropped on return; get goes on to the request only after Ok
LimitTake(task) ==
    /\ rPc[task] = "take"
    /\ rRes' = [rRes EXCEPT ![task] =
                   [found |-> Some(rState.avaliable_requests),
                    result |-> IF rState.avaliable_requests # 0 THEN "Ok" ELSE "RateLimitReached"]]
    /\ rState' = IF rState.avaliable_requests # 0
                 THEN [rState EXCEPT !.avaliable_requests = @ - 1]
                 ELSE rState
    /\ rGranted' = IF rState.avaliable_requests # 0 THEN rGranted + 1 ELSE rGranted
    /\ rPc' = [rPc EXCEPT ![task] = IF rState.avaliable_requests # 0 THEN "upstream" ELSE "idle"]
    /\ UNCHANGED <<wall, rLimit, rRefillGap, rCalls, rUpstream, rTicks>>
    /\ UNCHANGED limitOff

\* the rest of get: the request is sent and answered
LimitUpstream(task) ==
    /\ rPc[task] = "upstream"
    /\ rUpstream' = rUpstream + 1
    /\ rPc' = [rPc EXCEPT ![task] = "idle"]
    /\ UNCHANGED <<wall, rLimit, rState, rRes, rGranted, rRefillGap, rCalls, rTicks>>
    /\ UNCHANGED limitOff

\* time passes, also while a task holds the guard
LimitTick ==
    /\ rTicks < MaxLimitTicks
    /\ \E step \in LimitClockSteps : wall' = wall + step
    /\ rTicks' = rTicks + 1
    /\ UNCHANGED <<rLimit, rState, rPc, rRes, rGranted, rRefillGap, rCalls, rUpstream>>
    /\ UNCHANGED limitOff

NextLimit ==
    \/ \E task \in LimitTasks : LimitCall(task)
    \/ \E task \in LimitTasks : LimitLock(task)
    \/ \E task \in LimitTasks : LimitCheck(task)
    \/ \E task \in LimitTasks : LimitRefill(task)
    \/ \E task \in LimitTasks : LimitTake(task)
    \/ \E task \in LimitTasks : LimitUpstream(task)
    \/ LimitTick

(***************************************************************************)
(* Specification SpecCollect: the supervision loop of collector::run       *)
(* around one collector.  Durations are seconds; a backoff beyond          *)
(* MaxBackoff is kept as MaxBackoff, a count of failures beyond MaxFails   *)
(* as MaxFails, and of the waits only the last MaxWaits are kept.          *)
(***************************************************************************)
MaxBackoff == 40
MaxFails == 3
MaxWaits == 2
DefaultTick == 10
Continuation == {"ContinueAfter", "ContinueAt", "Continue", "Restart", "Exit"}
SupervisionStrategy == {"Restart", "Resume", "Stop"}
Ticks == {None, Some(DefaultTick)}
AtMost(n, max) == IF n > max THEN max ELSE n
Waited(waits, wait) ==
    IF Len(waits) < MaxWaits THEN Append(waits, wait)
    ELSE Append(SubSeq(waits, 2, Len(waits)), wait)

\* Collector::backoff, the default implementation
Backoff(tick, last_backoff) == AtMost(last_backoff + UnwrapOr(tick, DefaultTick), MaxBackoff)
\* "collector.tick().unwrap_or(Duration::from_secs(10))"
FirstBackoff(tick) == UnwrapOr(tick, DefaultTick)
\* "if let Some(tick) = &mut interval { tick.tick().await; }"
IntervalTick(tick, waits) == IF IsSome(tick) THEN Waited(waits, "tick") ELSE waits

\* the task is spawned: interval and backoff are set up from tick()
InitCollect ==
    /\ supTick \in Ticks
    /\ supOnError \in SupervisionStrategy
    /\ supOnPanic \in SupervisionStrategy
    /\ supPc = "loop"
    /\ supResult = None
    /\ supBackoff = FirstBackoff(supTick)
    /\ supFails = 0
    /\ supWaits = <<>>
    /\ wall = 0
    /\ MergeIdle
    /\ CacheIdle
    /\ StitchIdle
    /\ PathIdle
    /\ AliasIdle
    /\ LocksIdle
    /\ DriftIdle
    /\ LimitIdle

\* top of the loop: run_persistent is called
CollectRun ==
    /\ supPc = "loop"
    /\ supPc' = "running"
    /\ UNCHANGED <<supTick, supOnError, supOnPanic, supResult, supBackoff, supFails, supWaits>>
    /\ UNCHANGED collectOff

\* run_persistent returns a continuation (Exit also for an inactive collector), returns
\* the error of Collector::run, or panics (in run, or in an unwrap of a database call);
\* "check for errors" turns the last two into the strategy of on_error or on_panic
CollectRunReturns ==
    /\ supPc = "running"
    /\ \/ \E continuation \in Continuation :
             /\ supResult' = Some([ok |-> TRUE, v |-> continuation])
             /\ supFails' = 0
             /\ supPc' = "continue"
       \/ \E strategy \in {supOnError, supOnPanic} :
             /\ supResult' = Some([ok |-> FALSE, v |-> strategy])
             /\ supFails' = AtMost(supFails + 1, MaxFails)
             /\ supPc' = "supervise"
    /\ supWaits' = <<>>
    /\ UNCHANGED <<supTick, supOnError, supOnPanic, supBackoff>>
    /\ UNCHANGED collectOff

\* "if let Ok(continuation) = result.clone()": the match on the continuation and the
\* reset of backoff; todo!() panics outside catch_unwind and ends the task
CollectContinue ==
    /\ supPc = "continue"
    /\ \/ /\ Unwrap(supResult).v \in {"ContinueAfter", "ContinueAt"}
          /\ supPc' = "panicked"
          /\ UNCHANGED <<supResult, supBackoff, supWaits>>
       \/ /\ Unwrap(supResult).v = "Continue"
          /\ supWaits' = IntervalTick(supTick, supWaits)
          /\ supBackoff' = FirstBackoff(supTick)
          /\ supPc' = "loop"
          /\ UNCHANGED supResult
       \/ /\ Unwrap(supResult).v = "Restart"
          /\ \/ \* get_collector answers: the collector is made anew by the factory
                /\ supWaits' = IntervalTick(supTick, supWaits)
                /\ supPc' = "loop"
                /\ UNCHANGED supResult
             \/ \* get_collector fails
                /\ supResult' = Some([ok |-> FALSE, v |-> supOnPanic])
                /\ supPc' = "supervise"
                /\ UNCHANGED supWaits
          /\ supBackoff' = FirstBackoff(supTick)
       \/ /\ Unwrap(supResult).v = "Exit"
          /\ supPc' = "exited"
          /\ UNCHANGED <<supResult, supBackoff, supWaits>>
    /\ UNCHANGED <<supTick, supOnError, supOnPanic, supFails>>
    /\ UNCHANGED collectOff

\* head and match of "while let Err(strategy) = result.clone()"
CollectSupervise ==
    /\ supPc = "supervise"
    /\ \/ /\ Unwrap(supResult).v = "Restart"
          /\ \/ \* get_collector answers: "collector = factory(value.state)"
                /\ supPc' = "recreated"
                /\ UNCHANGED supResult
             \/ \* get_collector fails
                /\ supResult' = Some([ok |-> FALSE, v |-> supOnPanic])
                /\ supPc' = "not_loaded"
       \/ /\ Unwrap(supResult).v = "Resume"
          /\ supPc' = "loop"
          /\ UNCHANGED supResult
       \/ /\ Unwrap(supResult).v = "Stop"
          /\ supPc' = "stopped"
          /\ UNCHANGED supResult
    /\ UNCHANGED <<supTick, supOnError, supOnPanic, supBackoff, supFails, supWaits>>
    /\ UNCHANGED collectOff

\* the end of the body of the while loop: "backoff = collector.backoff(backoff);
\* sleep(backoff).await", and back to its head
CollectSleep ==
    /\ supPc \in {"recreated", "not_loaded"}
    /\ supBackoff' = Backoff(supTick, supBackoff)
    /\ supWaits' = Waited(supWaits, supBackoff')
    /\ supPc' = "supervise"
    /\ UNCHANGED <<supTick, supOnError, supOnPanic, supResult, supFails>>
    /\ UNCHANGED collectOff

NextCollect ==
    \/ CollectRun
    \/ CollectRunReturns
    \/ CollectContinue
    \/ CollectSupervise
    \/ CollectSleep

SpecMerge == InitMerge /\ [][NextMerge]_vars
\* the runtime polls the task whenever it can proceed; database calls, Collector::run,
\* interval ticks and sleeps all end
SpecCollect == InitCollect /\ [][NextCollect]_vars /\ WF_vars(NextCollect)
SpecLimit == InitLimit /\ [][NextLimit]_vars
SpecDrift == InitDrift /\ [][NextDrift]_vars
SpecCache == InitCache /\ [][NextCache]_vars
SpecStitch == InitStitch /\ [][NextStitch]_vars
SpecPath == InitPath /\ [][NextPath]_vars
SpecAlias == InitAlias /\ [][NextAlias]_vars
\* the runtime polls every task that can proceed, and every pending fetch returns
SpecLocks == InitLocks /\ [][NextLocks]_vars /\ WF_vars(NextLocks)

(***************************************************************************)
(* Properties of the Event merge                                           *)
(***************************************************************************)
\* C5: an incoming revised time is significant exactly when it differs from the cached
\* revised time by more than one minute (an absent cached time differs) and, when the
\* cached Event has a planned time, lies at least five minutes after it.
OnlyTime(e) ==
    IsSome(e.changed_time) /\ IsNone(e.changed_platform)
    /\ IsNone(e.changed_path) /\ IsNone(e.changed_status)
Distance(a, b) == IF a >= b THEN a - b ELSE b - a
DiffersFromCached(cached, incoming) ==
    IsNone(cached) \/ Distance(Unwrap(incoming), Unwrap(cached)) > 60
AfterPlanned(planned, incoming) ==
    IsSome(planned) => Unwrap(incoming) - Unwrap(planned) >= 5 * 60
C5_TimeSignificance ==
    (mPc = "done" /\ OnlyTime(mOther)) =>
        (mRes <=> /\ DiffersFromCached(mOld.changed_time, mOther.changed_time)
                  /\ AfterPlanned(mOld.planned_time, mOther.changed_time))

OnlyPlatform(e) ==
    IsSome(e.changed_platform) /\ IsNone(e.changed_time)
    /\ IsNone(e.changed_path) /\ IsNone(e.changed_status)
\* C27 as stated: an incoming revised platform is significant exactly when it differs
\* from the cached revised platform (an absent one differs) and the revised platform
\* then differs from the planned platform.
C27_PlatformSignificance ==
    (mPc = "done" /\ OnlyPlatform(mOther)) =>
        (mRes <=> /\ mOther.changed_platform # mOld.changed_platform
                  /\ mSelf.changed_platform # mSelf.planned_platform)
\* C27: an incoming revised platform is significant exactly when it differs from the
\* cached revised platform (an absent one differs), the Event has a planned platform,
\* and the revised platform then differs from that planned platform.
C27_PlatformSignificanceIfPlanned ==
    (mPc = "done" /\ OnlyPlatform(mOther)) =>
        /\ mSelf.changed_platform = mOther.changed_platform
        /\ (mRes <=> /\ mOther.changed_platform # mOld.changed_platform
                      /\ mSelf.planned_platform # None
                      /\ mSelf.changed_platform # mSelf.planned_platform)
C27_Witness ==
    /\ mPc = "done" /\ OnlyPlatform(mOther) /\ mRes
    /\ mOld.changed_platform = mOld.planned_platform
    /\ mSelf.changed_platform # mSelf.planned_platform

OnlyStatus(e) ==
    IsSome(e.changed_status) /\ IsNone(e.changed_time)
    /\ IsNone(e.changed_path) /\ IsNone(e.changed_platform)
\* C28 as stated: an incoming revised status is significant whenever the cached revised
\* status changes value, from absent to present and from Cancelled to Planned included.
C28_StatusSignificance ==
    (mPc = "done" /\ OnlyStatus(mOther)) =>
        (mSelf.changed_status # mOld.changed_status => mRes)
\* C28: an incoming revised status is significant exactly when the cached revised status
\* changes value (from absent to present included) and the status the Event has then is
\* Cancelled; a change from Cancelled to Planned is not significant.
C28_StatusSignificanceIfCancelled ==
    (mPc = "done" /\ OnlyStatus(mOther)) =>
        /\ mSelf.changed_status = mOther.changed_status
        /\ mSelf.actual_status = mOther.changed_status[1]
        /\ (mRes <=> /\ mSelf.changed_status # mOld.changed_status
                      /\ mSelf.actual_status = "Cancelled")
C28_Witness ==
    /\ mPc = "done" /\ OnlyStatus(mOther) /\ ~mRes
    /\ mOld.changed_status = Some("Cancelled")
    /\ mSelf.changed_status = Some("Planned")

OnlyPath(e) ==
    IsSome(e.changed_path) /\ IsNone(e.changed_time)
    /\ IsNone(e.changed_status) /\ IsNone(e.changed_platform)
\* the incoming revised path takes the place of the cached one: none is cached, or the
\* cached one is longer
PathReplaced(cached, incoming) ==
    cached = None \/ Len(cached[1]) > Len(incoming[1])
\* C29 as stated: an incoming revised path is significant only if the status the Event
\* has then is Cancelled.
C29_PathSignificance ==
    (mPc = "done" /\ OnlyPath(mOther)) => (mRes => mSelf.actual_status = "Cancelled")
\* C29: an incoming revised path is significant exactly when it takes the place of the
\* cached revised path, whatever the status of the Event.
C29_PathSignificanceIfReplaced ==
    (mPc = "done" /\ OnlyPath(mOther)) =>
        /\ mRes <=> PathReplaced(mOld.changed_path, mOther.changed_path)
        /\ mSelf.actual_status = mOld.actual_status
C29_Witness ==
    /\ mPc = "done" /\ OnlyPath(mOther) /\ mRes
    /\ mSelf.actual_status # "Cancelled"
    /\ mSelf.actual_path # mOld.actual_path

\* C30: after the merge of an incoming Event that carries a revised path, the cached
\* revised path is the incoming one and actual_path is the planned path reconciled with
\* it, whatever revised path was cached.
C30_PathRecomputed ==
    (mPc = "done" /\ mOther.changed_path # None) =>
        /\ mSelf.changed_path = mOther.changed_path
        /\ mSelf.actual_path = PathWalk(mOld.planned_path, mOther.changed_path[1],
                                        [i |-> 0, j |-> 0, acc |-> <<>>])

(***************************************************************************)
(* Properties of the station timetable cache                               *)
(***************************************************************************)
Range(seq) == {seq[k] : k \in 1..Len(seq)}
EventsOf(stop) == Range(stop.arrival) \cup Range(stop.departure)
StopsOf(c) == {c.stops[fid].stop : fid \in Tracked(c)}

\* C6: every present Event of every tracked stop has
\* actual_status = changed_status, else planned_status, else Planned, and
\* actual_path = reconcile(planned_path, changed_path).
DerivedFieldsOk(e) ==
    /\ e.actual_status =
          (IF IsSome(e.changed_status) THEN Unwrap(e.changed_status)
           ELSE IF IsSome(e.planned_status) THEN Unwrap(e.planned_status) ELSE "Planned")
    /\ e.actual_path = ActualPathOf(e)
C6_DerivedFields ==
    cOp # "off" => \A stop \in StopsOf(cache) : \A e \in EventsOf(stop) : DerivedFieldsOk(e)

\* C7: a get_updates keeps, for every full id tracked before and after it, the same
\* shared Stop object, and every revised field that was present stays present.
RevisedKept(old, new) ==
    /\ IsSome(old.changed_time) => IsSome(new.changed_time)
    /\ IsSome(old.changed_platform) => IsSome(new.changed_platform)
    /\ IsSome(old.changed_status) => IsSome(new.changed_status)
    /\ IsSome(old.changed_path) => IsSome(new.changed_path)
StopRevisedKept(old, new) ==
    /\ IsSome(old.arrival) => IsSome(new.arrival) /\ RevisedKept(Unwrap(old.arrival), Unwrap(new.arrival))
    /\ IsSome(old.departure) => IsSome(new.departure) /\ RevisedKept(Unwrap(old.departure), Unwrap(new.departure))
C7_PlanPatchesInPlace ==
    cOp = "get_updates" =>
        \A fid \in Tracked(cPrev) \cap Tracked(cache) :
            /\ cache.stops[fid].obj = cPrev.stops[fid].obj
            /\ StopRevisedKept(cPrev.stops[fid].stop, cache.stops[fid].stop)

\* C8: an eviction pass removes exactly the tracked stops all of whose present times
\* are more than 120 minutes before now; they go to the removed-stops buffer, which
\* get_and_clear_removed_stops returns and empties, and are not in get_current's result.
EventTimes(e) == Range(e.planned_time) \cup Range(e.changed_time)
StopTimes(stop) == UNION {EventTimes(e) : e \in EventsOf(stop)}
Stale(stop, now) == \A t \in StopTimes(stop) : now - t > 120 * 60
PassEvicts(before, after, now) ==
    \A fid \in Tracked(before) :
        IF Stale(before.stops[fid].stop, now)
        THEN /\ fid \notin Tracked(after)
             /\ before.stops[fid].stop \in Range(after.removed_stops)
        ELSE /\ fid \in Tracked(after)
             /\ after.stops[fid] = before.stops[fid]
C8_Eviction ==
    /\ cOp = "get_current" =>
          /\ PassEvicts(cPrev, cache, wall)
          /\ \A stop \in StopsOf(cPrev) : Stale(stop, wall) => stop \notin Range(cOut)
    /\ cOp = "get_updates" =>
          IF NumHours(wall - cIn.after_apply.last_outdated_removed) >= 2
          THEN PassEvicts(cIn.after_apply, cache, wall)
          ELSE cache = cIn.after_apply
    /\ cOp = "get_and_clear_removed_stops" =>
          /\ cOut = cPrev.removed_stops
          /\ cache.removed_stops = <<>>
          /\ cache.stops = cPrev.stops
C8_Witness ==
    /\ cOp = "get_and_clear_removed_stops"
    /\ \E stop \in Range(cOut) : Stale(stop, wall) /\ StopTimes(stop) # {}

\* C9: a fetched change whose full id is not tracked is inserted and reported iff its
\* first present planned status (arrival, then departure) is Added; otherwise it goes
\* to the unapplied-changes buffer and the tracked map stays without it.
FeedMarksAdded(stop) ==
    LET ps == [k \in 1..Len(stop.arrival \o stop.departure) |->
                  (stop.arrival \o stop.departure)[k].planned_status]
        present == SelectSeq(ps, IsSome)
    IN  present # <<>> /\ present[1] = Some("Added")
UntrackedChanges(before, batch) ==
    {k \in 1..Len(batch) : FullIdString(batch[k].id) \notin Tracked(before)}
C9_UntrackedChange ==
    (cOp = "get_updates" /\ cIn.changes.ok) =>
        \A k \in UntrackedChanges(cIn.after_plan, cIn.changes.stops) :
            LET change == cIn.changes.stops[k]
                fid == FullIdString(change.id)
            IN  IF FeedMarksAdded(change)
                THEN /\ fid \in Tracked(cIn.after_apply)
                     /\ \E ref \in Range(cOut.values) : ref.fid = fid
                     /\ change \notin Range(cIn.after_apply.unapplied_known_changes_cache)
                ELSE /\ fid \notin Tracked(cIn.after_apply)
                     /\ change \in Range(cIn.after_apply.unapplied_known_changes_cache)
                     /\ \A ref \in Range(cOut.values) : ref.fid # fid
C9_Witness ==
    /\ cOp = "get_updates" /\ cIn.changes.ok
    /\ \E k \in UntrackedChanges(cIn.after_plan, cIn.changes.stops) :
          FeedMarksAdded(cIn.changes.stops[k])
    /\ \E k \in UntrackedChanges(cIn.after_plan, cIn.changes.stops) :
          ~FeedMarksAdded(cIn.changes.stops[k])

\* C10 as claimed: whatever the fetches of a refresh cycle return, a change that was in
\* the unapplied-changes buffer before the cycle has been applied (its stop is tracked)
\* or is in the buffer again after it.
C10_ReplayedWhateverOutcome ==
    cOp = "get_updates" =>
        \A change \in Range(cPrev.unapplied_known_changes_cache) :
            \/ FullIdString(change.id) \in Tracked(cIn.after_apply)
            \/ change \in Range(cIn.after_apply.unapplied_known_changes_cache)

\* C10 as amended: the buffer is replayed exactly when the known-changes fetch fails and
\* the plan fetch did not fail outright; it is kept as it is when both fail; it is
\* replaced by the untracked, not added changes of the fetched set otherwise.
Replayed(before, after, buffer) ==
    \A k \in 1..Len(buffer) :
        LET fid == FullIdString(buffer[k].id)
        IN  IF fid \in Tracked(before)
            THEN /\ buffer[k] \notin Range(after.unapplied_known_changes_cache)
                 /\ after.stops[fid].obj = before.stops[fid].obj
                 /\ StopRevisedKept(buffer[k], after.stops[fid].stop)
            ELSE buffer[k] \in Range(after.unapplied_known_changes_cache)
C10_ReplayOnChangesFailure ==
    cOp = "get_updates" =>
        LET buffer == cPrev.unapplied_known_changes_cache
            after == cIn.after_apply
        IN  IF cIn.changes.ok
            THEN after.unapplied_known_changes_cache =
                    SelectSeq(cIn.changes.stops,
                              LAMBDA x : FullIdString(x.id) \notin Tracked(cIn.after_plan)
                                         /\ ~FeedMarksAdded(x))
            ELSE IF cIn.plan_result = "Err"
            THEN after.unapplied_known_changes_cache = buffer /\ after.stops = cIn.after_plan.stops
            ELSE Replayed(cIn.after_plan, after, buffer)
C10_Witness ==
    /\ cOp = "get_updates" /\ ~cIn.changes.ok /\ cIn.plan_result # "Err"
    /\ \E change \in Range(cPrev.unapplied_known_changes_cache) :
          FullIdString(change.id) \in Tracked(cIn.after_plan)
    /\ \E change \in Range(cPrev.unapplied_known_changes_cache) :
          FullIdString(change.id) \notin Tracked(cIn.after_plan)

\* what draining the unapplied-changes buffer and applying it to the tracked set yields
Drained(c) == [c EXCEPT !.unapplied_known_changes_cache = <<>>]
FellBack ==
    /\ cIn.applied = "cache"
    /\ cIn.after_apply =
          ApplyUpdates(Drained(cIn.after_plan), cIn.after_plan.unapplied_known_changes_cache).c
    /\ cOut.values =
          ApplyUpdates(Drained(cIn.after_plan), cIn.after_plan.unapplied_known_changes_cache).values

\* C11 as claimed: whenever the known-changes fetch of a get_updates fails, the buffer is
\* drained and applied to the tracked set in that call, whatever fetch_plan returned.
C11_FallbackWhateverPlan ==
    (cOp = "get_updates" /\ ~cIn.changes.ok) => FellBack

\* C11 as amended: the buffer is drained and applied when the known-changes fetch fails
\* and fetch_plan returned Ok, OkNoValues or ErrButValues; when fetch_plan returned Err
\* nothing is applied, the cache stays as fetch_plan left it and the call returns Err.
C11_FallbackUnlessPlanFailed ==
    (cOp = "get_updates" /\ ~cIn.changes.ok) =>
        IF cIn.plan_result = "Err"
        THEN /\ cIn.applied = "nothing"
             /\ cIn.after_apply = cIn.after_plan
             /\ cOut.kind = "Err" /\ cOut.values = <<>>
        ELSE FellBack
C11_Witness ==
    /\ cOp = "get_updates" /\ ~cIn.changes.ok /\ cIn.plan_result # "Err"
    /\ cPrev.unapplied_known_changes_cache # <<>>
    /\ cOut.values # <<>>

\* the errors of the fetches that failed in the get_updates just returned: the plan
\* slice's first, the known-changes fetch's second
FetchErrors ==
    (IF cIn.fail_at # -1 THEN <<"RequestError">> ELSE <<>>)
        \o (IF cIn.changes.ok THEN <<>> ELSE <<cIn.changes.err>>)

\* C12: get_updates returns one of the four outcomes; Ok or OkNoValues exactly when no
\* plan slice fetch failed and the known-changes fetch succeeded, ErrButValues or Err
\* with the errors of the failed fetches otherwise.
C12_OutcomeClassification ==
    cOp = "get_updates" =>
        /\ cOut.kind \in {"Ok", "OkNoValues", "ErrButValues", "Err"}
        /\ cOut.kind \in {"Ok", "OkNoValues"} <=> (cIn.fail_at = -1 /\ cIn.changes.ok)
        /\ cOut.errors = FetchErrors
        /\ cOut.kind \in {"OkNoValues", "Err"} => cOut.values = <<>>
        /\ cOut.kind = "Ok" => cOut.values # <<>>
C12_Witness ==
    /\ cOp = "get_updates" /\ cIn.fail_at = 1 /\ cIn.changes.ok
    /\ cOut.kind = "ErrButValues" /\ cOut.values # <<>>

\* C21 as stated: get_current returns every stop that is tracked after its eviction pass.
C21_EveryTrackedReturned ==
    cOp = "get_current" => \A stop \in StopsOf(cache) : stop \in Range(cOut)

\* C21: get_current returns, each once, exactly the stops tracked after its eviction pass
\* that have a planned or changed time of their arrival or departure no more than 2
\* minutes before now; a tracked stop all of whose times are older is kept tracked and
\* left out of the list.
Recent(stop, now) == \E t \in StopTimes(stop) : t >= now - 2 * 60
C21_RecentTrackedReturned ==
    cOp = "get_current" =>
        /\ Range(cOut) = {stop \in StopsOf(cache) : Recent(stop, wall)}
        /\ Len(cOut) = Cardinality(Range(cOut))
C21_Witness ==
    /\ cOp = "get_current"
    /\ cOut # <<>>
    /\ \E stop \in StopsOf(cache) : ~Stale(stop, wall) /\ stop \notin Range(cOut)

\* the earliest present time of a stop; now when it has none
EarliestTime(stop, now) ==
    IF StopTimes(stop) = {} THEN now
    ELSE CHOOSE t \in StopTimes(stop) : \A u \in StopTimes(stop) : t <= u
LeadingEvent(stop) == IF stop.departure # None THEN stop.departure ELSE stop.arrival
LeadingTime(stop, now) ==
    IF LeadingEvent(stop) = None THEN now
    ELSE IF LeadingEvent(stop)[1].planned_time # None THEN LeadingEvent(stop)[1].planned_time[1]
    ELSE IF LeadingEvent(stop)[1].changed_time # None THEN LeadingEvent(stop)[1].changed_time[1]
    ELSE now
EvictedFrom(before, after) ==
    {before.stops[fid].stop : fid \in Tracked(before) \ Tracked(after)}
\* the buffer after the step is the buffer before it followed by the evicted stops, each once
BufferGrownBy(old, new, evicted) ==
    /\ Len(new) = Len(old) + Cardinality(evicted)
    /\ SubSeq(new, 1, Len(old)) = old
    /\ {new[k] : k \in (Len(old) + 1)..Len(new)} = evicted
\* C23: get_and_clear_removed_stops returns the whole removed-stops buffer and leaves it
\* empty, without touching the tracked stops; every other operation leaves the buffer as
\* it was, followed by the stops that operation evicted, each once.  So a stop enters
\* the buffer once when it is evicted, stays until the next drain, and is returned by
\* that drain and by no later one.
C23_RemovedBuffer ==
    [][/\ cOp' = "get_and_clear_removed_stops" =>
            /\ cOut' = cache.removed_stops
            /\ cache'.removed_stops = <<>>
            /\ cache'.stops = cache.stops
       /\ cOp' = "get_current" =>
            BufferGrownBy(cache.removed_stops, cache'.removed_stops, EvictedFrom(cache, cache'))
       /\ cOp' = "get_updates" =>
            /\ cIn'.after_apply.removed_stops = cache.removed_stops
            /\ Tracked(cache) \subseteq Tracked(cIn'.after_apply)
            /\ BufferGrownBy(cache.removed_stops, cache'.removed_stops,
                             EvictedFrom(cIn'.after_apply, cache'))
       /\ cOp' = "tick" => cache' = cache]_vars
C23_Witness ==
    /\ cOp = "get_and_clear_removed_stops"
    /\ Len(cOut) >= 2
    /\ cache.removed_stops = <<>>
    /\ \A stop \in Range(cOut) : stop \notin StopsOf(cache)

\* the plan slices the get_updates just returned fetched before one failed, or all of
\* them when none failed
SlicesFetched == IF cIn.fail_at = -1 THEN cIn.fetched ELSE cIn.fail_at
\* C31: fetch_plan asks for the plan slices hour by hour starting at the cursor,
\* advances the cursor by one hour per slice it got, stops at the first slice that
\* fails and leaves the cursor on it, never moves the cursor backwards, and inserts
\* the stops of the slices it got before the failure into the tracked map.
C31_PlanCursor ==
    /\ cache.fetch_next >= cPrev.fetch_next
    /\ cOp = "get_updates" =>
          /\ cIn.asked = [i \in 1..cIn.fetched |-> cPrev.fetch_next + (i - 1) * Hours(1)]
          /\ cIn.fetched \in {SlicesFetched, SlicesFetched + 1}
          /\ cIn.fetched = SlicesFetched + 1 <=> cIn.fail_at # -1
          /\ cIn.after_plan.fetch_next = cPrev.fetch_next + SlicesFetched * Hours(1)
          /\ cache.fetch_next = cIn.after_plan.fetch_next
          /\ cIn.fail_at # -1 => cIn.asked[cIn.fetched] = cache.fetch_next
          /\ \A i \in 1..SlicesFetched : \A stop \in Range(PlanDb[cIn.asked[i]]) :
                FullIdString(stop.id) \in Tracked(cIn.after_plan)
\* the second slice fails after the first brought a stop that was not tracked
C31_Witness ==
    /\ cOp = "get_updates" /\ cIn.fail_at = 1 /\ cIn.fetched = 2
    /\ cache.fetch_next = cPrev.fetch_next + Hours(1)
    /\ \E stop \in Range(PlanDb[cIn.asked[1]]) :
          /\ FullIdString(stop.id) \notin Tracked(cPrev)
          /\ FullIdString(stop.id) \in Tracked(cIn.after_plan)

\* C32 as stated: no two eviction passes of the cache are less than 2 hours apart,
\* whatever get_updates and get_current calls are made.
C32_EvictionRate ==
    cSwept.before \in {"get_updates", "get_current"} => cSwept.apart
\* C32: an eviction pass run by get_updates comes at least 2 hours after the eviction
\* pass before it, or after the construction of the cache when it is the first; and
\* every get_current runs an eviction pass.
C32_EvictionRateOfGetUpdates ==
    /\ cSwept.by = "get_updates" => cSwept.apart
    /\ cOp = "get_current" =>
          /\ cSwept.by = "get_current" /\ cSwept.at = wall
          /\ cache.last_outdated_removed = wall
\* a get_updates runs an eviction pass after a get_current ran one
C32_Witness ==
    /\ cOp = "get_updates"
    /\ cSwept.by = "get_updates" /\ cSwept.at = wall
    /\ cSwept.before = "get_current"

\* C33: when the first plan slice fetch and the known-changes fetch of a get_updates
\* both fail, the tracked map, every tracked Stop, the fetch cursor, the
\* unapplied-changes buffer and last_update are after it what they were before it,
\* apart from the stops its eviction pass removed.
C33_TotalFailureFrame ==
    (cOp = "get_updates" /\ cIn.fail_at = 0 /\ ~cIn.changes.ok) =>
        /\ cIn.after_apply = cPrev
        /\ Tracked(cache) \subseteq Tracked(cPrev)
        /\ \A fid \in Tracked(cache) : cache.stops[fid] = cPrev.stops[fid]
        /\ Tracked(cPrev) \ Tracked(cache) \subseteq OutdatedIds(cPrev, wall)
        /\ cache.last_outdated_removed = cPrev.last_outdated_removed =>
              Tracked(cache) = Tracked(cPrev)
        /\ cache.fetch_next = cPrev.fetch_next
        /\ cache.unapplied_known_changes_cache = cPrev.unapplied_known_changes_cache
        /\ cache.last_update = cPrev.last_update
        /\ cOut.kind = "Err" /\ cOut.values = <<>>
\* both fetches fail on a cache that tracks stops, holds unapplied changes and has
\* been updated before
C33_Witness ==
    /\ cOp = "get_updates" /\ cIn.fail_at = 0 /\ ~cIn.changes.ok
    /\ Tracked(cPrev) # {}
    /\ cPrev.unapplied_known_changes_cache # <<>>
    /\ cPrev.last_update # None
    /\ Tracked(cache) # {} /\ Tracked(cache) # Tracked(cPrev)

\* C26: a get_updates issues no more plan-slice fetches than the slices of the look-ahead
\* horizon (one for each of its hours, and one more for the hour under way), whatever
\* the outcome of the fetches before it.
C26_BoundedCatchUp ==
    cOp = "get_updates" => cIn.fetched <= TIMETABLE_NEWS_PREFETCH + 1

(***************************************************************************)
(* Properties of the trip stitcher                                         *)
(***************************************************************************)
TripNames(stops) == [k \in 1..Len(stops) |-> stops[k].info.name]
TripRefs(stops) == [k \in 1..Len(stops) |-> stops[k].stop]
PathNames(path) == [k \in 1..Len(path) |-> path[k].name]
\* the station's last-successful-update timestamp is older than the trip's last_updated
OlderThanTrip(e) ==
    /\ IsSome(e.before) /\ IsSome(e.ts) /\ IsSome(Unwrap(e.before).last_updated)
    /\ Unwrap(e.ts) < Unwrap(Unwrap(e.before).last_updated)

\* C1 as claimed: a stop processed for a tracked trip while the station's timestamp is
\* older than the trip's last_updated leaves the InternalTrip as it was.
C1_StaleChangesNothing ==
    \A k \in 1..Len(tLog) : OlderThanTrip(tLog[k]) => tLog[k].after = Unwrap(tLog[k].before)

\* C1 as amended: such a stop changes no entry status, inserts no entry and leaves
\* last_updated; all it may do is attach itself to entries that had no Stop and are
\* named as the station itself.
OnlyAttached(e, old, new) ==
    /\ Len(new.stops) = Len(old.stops)
    /\ new.last_updated = old.last_updated
    /\ new.id = old.id
    /\ \A j \in 1..Len(old.stops) :
          /\ new.stops[j].info = old.stops[j].info
          /\ \/ new.stops[j].stop = old.stops[j].stop
             \/ /\ IsNone(old.stops[j].stop)
                /\ new.stops[j].stop = Some(e.ref)
                /\ IsOwnStationName(tNews[e.station], old.stops[j].info.name)
C1_StaleOnlyAttaches ==
    \A k \in 1..Len(tLog) :
        OlderThanTrip(tLog[k]) => OnlyAttached(tLog[k], Unwrap(tLog[k].before), tLog[k].after)
C1_Witness ==
    \E k \in 1..Len(tLog) :
        /\ OlderThanTrip(tLog[k])
        /\ tLog[k].after # Unwrap(tLog[k].before)
        /\ PathNames(DisplayPath(tLog[k].stop, tNews[tLog[k].station]))
              # TripNames(tLog[k].after.stops)

\* C2: processing the stop a station has just been processed with once more, the
\* station's timestamp being the same, leaves the InternalTrip as the first time left it.
C2_Idempotent ==
    \A k \in 1..Len(tLog) :
        UpdateTrip(tLog[k].after, tLog[k].stop, tLog[k].ref, tNews[tLog[k].station])
            = tLog[k].after

\* C3: S's stop of the untracked trip T1, arriving from X and leaving for Y, makes the
\* trip X (no Stop), S (S's Stop), Y (no Stop); Y's stop of T1, which arrives over X
\* and S, then fills the entry of Y and leaves the rest: S holds S's Stop, X none, and
\* the entries are still X, S, Y.
CreatedByS(e) ==
    /\ e.station = "s" /\ IsNone(e.before)
    /\ PathNames(ArrivalPath(e.stop)) = <<NameX>>
    /\ PathNames(DeparturePath(e.stop)) = <<NameY>>
FilledByY(e) ==
    /\ e.station = "y" /\ IsSome(e.before)
    /\ PathNames(DisplayPath(e.stop, tNews["y"])) = <<NameX, NameS, NameY>>
    /\ TripNames(Unwrap(e.before).stops) = <<NameX, NameS, NameY>>
    /\ IsNone(Unwrap(e.before).stops[1].stop)
    /\ IsSome(Unwrap(e.before).stops[2].stop)
    /\ Unwrap(Unwrap(e.before).stops[2].stop).station = "s"
    /\ IsNone(Unwrap(e.before).stops[3].stop)
C3_EndToEnd ==
    \A k \in 1..Len(tLog) :
        /\ CreatedByS(tLog[k]) =>
              /\ TripNames(tLog[k].after.stops) = <<NameX, NameS, NameY>>
              /\ TripRefs(tLog[k].after.stops) = <<None, Some(tLog[k].ref), None>>
        /\ FilledByY(tLog[k]) =>
              /\ TripNames(tLog[k].after.stops) = <<NameX, NameS, NameY>>
              /\ TripRefs(tLog[k].after.stops) =
                    <<None, Unwrap(tLog[k].before).stops[2].stop, Some(tLog[k].ref)>>
              /\ tLog[k].ref.station = "y"
C3_Witness ==
    \E k \in 1..Len(tLog) : FilledByY(tLog[k]) /\ ~OlderThanTrip(tLog[k])

\* C4: from one state to the next, every InternalTrip stays, its entries embed in order
\* into the later entries, each into an entry of the same name, and an entry that held
\* a Stop into an entry that holds a Stop.
RECURSIVE Embeds(_, _, _, _)
Embeds(old, new, i, j) ==
    IF i > Len(old) THEN TRUE
    ELSE IF j > Len(new) THEN FALSE
    ELSE \/ /\ new[j].info.name = old[i].info.name
            /\ IsSome(old[i].stop) => new[j].stop = old[i].stop
            /\ Embeds(old, new, i + 1, j + 1)
         \/ Embeds(old, new, i, j + 1)
C4_EntriesKept ==
    [][\A id \in DOMAIN tTrips :
          /\ id \in DOMAIN tTrips'
          /\ Embeds(tTrips[id].stops, tTrips'[id].stops, 1, 1)]_vars
C4_Witness ==
    \E k \in 1..Len(tLog) :
        /\ IsSome(tLog[k].before)
        /\ Len(tLog[k].after.stops) > Len(Unwrap(tLog[k].before).stops)
        /\ \E j \in 1..Len(Unwrap(tLog[k].before).stops) :
              IsSome(Unwrap(tLog[k].before).stops[j].stop)

\* the stations of a list of visits, and the visits whose get_updates failed or not
StationsOf(visits) == [k \in 1..Len(visits) |-> visits[k].station]
FailedVisits(visits) == SelectSeq(visits, LAMBDA v : v.kind \in {"ErrButValues", "Err"})
PassedVisits(visits) == SelectSeq(visits, LAMBDA v : v.kind \in {"Ok", "OkNoValues"})

\* C13: when update replaces the queue, the new queue is the stations whose get_updates
\* returned ErrButValues or Err, in the order they were gone through, followed by those
\* whose get_updates returned Ok or OkNoValues, in that order; it holds each station
\* gone through once.
C13_FailurePriority ==
    [][(tPc = "end" /\ tPc' = "idle") =>
          /\ tQueue' = StationsOf(FailedVisits(tVisits)) \o StationsOf(PassedVisits(tVisits))
          /\ Len(tQueue') = Len(tVisits)
          /\ \A k \in 1..Len(tVisits) :
                Cardinality({j \in 1..Len(tQueue') : tQueue'[j] = tVisits[k].station}) = 1]_vars
C13_Witness ==
    /\ tPc = "idle" /\ Len(tVisits) = 2
    /\ tVisits[1].kind \in {"Ok", "OkNoValues"}
    /\ tVisits[2].kind \in {"ErrButValues", "Err"}
    /\ tQueue = <<tVisits[2].station, tVisits[1].station>>

\* C14: every iteration of the for loop of update collects the removed stops of the
\* station it stands at and calls its get_updates, whatever the stations before it
\* returned; the loop is left only when every station of the queue has been gone through
\* once; no station leaves the queue between two calls of update, and a station whose
\* get_updates failed is in the queue update leaves behind.
C14_NeverAborted ==
    [][/\ tPc = "loop" =>
             /\ Len(tVisits') = Len(tVisits) + 1
             /\ SubSeq(tVisits', 1, Len(tVisits)) = tVisits
             /\ tVisits'[Len(tVisits')].station = tQueue[tIdx]
             /\ tVisits'[Len(tVisits')].removed = tNews[tQueue[tIdx]].removed_stops
             /\ tVisits'[Len(tVisits')].kind \in {"Ok", "OkNoValues", "ErrButValues", "Err"}
       /\ (tPc # "end" /\ tPc' = "end") => StationsOf(tVisits') = tQueue'
       /\ tPc = "idle" =>
             Len(tQueue') >= Len(tQueue) /\ SubSeq(tQueue', 1, Len(tQueue)) = tQueue
       /\ (tPc = "end" /\ tPc' = "idle") =>
             \A k \in 1..Len(tVisits) :
                tVisits[k].kind \in {"ErrButValues", "Err"} =>
                    \E j \in 1..Len(tQueue') : tQueue'[j] = tVisits[k].station]_vars
C14_Witness ==
    /\ tPc = "end" /\ tCycles = 2 /\ Len(tVisits) = 2
    /\ tVisits[1].kind = "Err"
    /\ IsNone(tNews[tVisits[1].station].last_update)
    /\ Tracked(tNews[tVisits[1].station]) = {}
    /\ tVisits[2].removed # <<>>

\* the add attempts that got one of the given answers
AddsWith(adds, outcomes) == SelectSeq(adds, LAMBDA a : a.outcome \in outcomes)
Transient == AddOutcomes \ {"ok", "StationDoesNotExist"}

\* C15: add_station drops a station that does not exist, queues one that failed otherwise
\* and puts one that was found on the update queue; update first tries every queued
\* station again, in order and before going through any station, keeps the ones that
\* failed otherwise queued, drops the ones that do not exist and puts the ones found on
\* the update queue, which the same call of update then goes through; nothing else
\* changes the queue of stations to add.
C15_OnboardingRetry ==
    [][/\ tRequested' # tRequested =>
             /\ tAdds'[1].outcome = "StationDoesNotExist" =>
                    tAddQueue' = tAddQueue /\ tQueue' = tQueue
             /\ tAdds'[1].outcome \in Transient =>
                    tAddQueue' = Append(tAddQueue, tAdds'[1].station) /\ tQueue' = tQueue
             /\ tAdds'[1].outcome = "ok" =>
                    tAddQueue' = tAddQueue /\ tQueue' = Append(tQueue, tAdds'[1].station)
       /\ (tPc = "idle" /\ tPc' # "idle") =>
             /\ StationsOf(tAdds') = tAddQueue
             /\ tAddQueue' = StationsOf(AddsWith(tAdds', Transient))
             /\ tQueue' = tQueue \o StationsOf(AddsWith(tAdds', {"ok"}))
             /\ tVisits' = <<>>
       /\ (tRequested' = tRequested /\ ~(tPc = "idle" /\ tPc' # "idle")) =>
             tAddQueue' = tAddQueue
       /\ (tPc = "loop" /\ tPc' = "end") =>
             \A k \in 1..Len(tAdds) :
                tAdds[k].outcome = "ok" =>
                    \E j \in 1..Len(tVisits') : tVisits'[j].station = tAdds[k].station]_vars
C15_Witness ==
    /\ tPc = "end" /\ tCycles = 2 /\ Len(tAdds) = 2 /\ tAddQueue = <<>>
    /\ tAdds[1].outcome = "ok" /\ tAdds[2].outcome = "StationDoesNotExist"
    /\ StationsOf(tVisits) = <<tAdds[1].station>>

\* the actual_path fields of a stop's Events, and the status of the stop as a whole
ActualPathsOf(stop) ==
    [arrival |-> IF stop.arrival = <<>> THEN <<>> ELSE stop.arrival[1].actual_path,
     departure |-> IF stop.departure = <<>> THEN <<>> ELSE stop.departure[1].actual_path]
EventStatuses(stop) ==
    {stop.arrival[k].actual_status : k \in 1..Len(stop.arrival)}
        \cup {stop.departure[k].actual_status : k \in 1..Len(stop.departure)}
OverallStatus(stop) ==
    IF "Cancelled" \in EventStatuses(stop) THEN "Cancelled"
    ELSE IF "Added" \in EventStatuses(stop) THEN "Added" ELSE "Planned"
CreatedTrip(e) == e.before = <<>>

\* C16: the InternalTrip created for a stop of an untracked trip has as entries the
\* arrival's actual_path, the own station with the status of the stop as a whole, and
\* the departure's actual_path; only the own entry holds a Stop, the one processed;
\* last_updated is the station's last_update.
C16_TripCreation ==
    \A k \in 1..Len(tLog) :
        CreatedTrip(tLog[k]) =>
            /\ [j \in 1..Len(tLog[k].after.stops) |-> tLog[k].after.stops[j].info] =
                  ActualPathsOf(tLog[k].stop).arrival
                    \o <<[status |-> OverallStatus(tLog[k].stop),
                          name |-> tNews[tLog[k].station].station_name]>>
                    \o ActualPathsOf(tLog[k].stop).departure
            /\ \A j \in 1..Len(tLog[k].after.stops) :
                  tLog[k].after.stops[j].stop =
                      IF j = Len(ActualPathsOf(tLog[k].stop).arrival) + 1
                      THEN <<tLog[k].ref>> ELSE <<>>
            /\ tLog[k].after.last_updated = tNews[tLog[k].station].last_update
            /\ tLog[k].after.id = TripIdString(tLog[k].stop.id)
C16_Witness ==
    \E k \in 1..Len(tLog) :
        /\ CreatedTrip(tLog[k])
        /\ ActualPathsOf(tLog[k].stop).arrival # <<>>
        /\ ActualPathsOf(tLog[k].stop).departure # <<>>
        /\ OverallStatus(tLog[k].stop) = "Cancelled"
        /\ tLog[k].stop.arrival[1].actual_status = "Planned"
        /\ tLog[k].after.last_updated # <<>>

(***************************************************************************)
(* Properties of Event::calculate_actual_path                              *)
(***************************************************************************)
\* the names of the entries of an actual path that carry one of the given statuses
NamesTagged(path, statuses) ==
    [k \in 1..Len(SelectSeq(path, LAMBDA x : x.status \in statuses)) |->
        SelectSeq(path, LAMBDA x : x.status \in statuses)[k].name]
Reconciled == pPc = "done" /\ pEvent.changed_path # <<>>

\* C17: with a changed path present, the entries of actual_path tagged Planned or
\* Cancelled are, in order, the planned path, and the entries tagged Planned or Added
\* are, in order, the changed path.
C17_Partition ==
    Reconciled =>
        /\ \A k \in 1..Len(pEvent.actual_path) : pEvent.actual_path[k].status \in EventStatus
        /\ NamesTagged(pEvent.actual_path, {"Planned", "Cancelled"}) = pEvent.planned_path
        /\ NamesTagged(pEvent.actual_path, {"Planned", "Added"}) = pEvent.changed_path[1]
C17_Witness ==
    /\ Reconciled
    /\ {pEvent.actual_path[k].status : k \in 1..Len(pEvent.actual_path)} = EventStatus
    /\ Len(pEvent.actual_path) > Len(pEvent.planned_path)

\* the resynchronisation point after a mismatch at (i, j), 0-based: pk is the first
\* position from j on whose planned name occurs in the changed path at i or later, or
\* the length of the planned path; ck is the first such occurrence, or the length of the
\* changed path
OccursFrom(planned, changed, i, pk) ==
    {ck \in i..(Len(changed) - 1) : changed[ck + 1] = planned[pk + 1]}
SyncPk(planned, changed, i, j) ==
    CHOOSE pk \in j..Len(planned) :
        /\ pk = Len(planned) \/ OccursFrom(planned, changed, i, pk) # {}
        /\ \A q \in j..(pk - 1) : OccursFrom(planned, changed, i, q) = {}
SyncCk(planned, changed, i, pk) ==
    IF pk = Len(planned) THEN Len(changed)
    ELSE CHOOSE ck \in OccursFrom(planned, changed, i, pk) :
            \A c \in OccursFrom(planned, changed, i, pk) : ck <= c
\* the output from the pointers (i, j) on, resynchronising as above
RECURSIVE Resynchronised(_, _, _, _)
Resynchronised(planned, changed, i, j) ==
    IF i >= Len(changed)
    THEN Tagged(Slice(planned, j, Len(planned)), "Cancelled")
    ELSE IF j >= Len(planned)
    THEN Tagged(Slice(changed, i, Len(changed)), "Added")
    ELSE IF changed[i + 1] = planned[j + 1]
    THEN <<ActualPathStop("Planned", planned[j + 1])>>
            \o Resynchronised(planned, changed, i + 1, j + 1)
    ELSE Tagged(Slice(planned, j, SyncPk(planned, changed, i, j)), "Cancelled")
            \o Tagged(Slice(changed, i,
                            SyncCk(planned, changed, i, SyncPk(planned, changed, i, j))),
                      "Added")
            \o Resynchronised(planned, changed,
                              SyncCk(planned, changed, i, SyncPk(planned, changed, i, j)),
                              SyncPk(planned, changed, i, j))

\* C18: with a changed path present, actual_path is what resynchronising at the first
\* pair (pk, ck) after every mismatch yields, the planned names skipped tagged Cancelled
\* before the changed names skipped tagged Added; planned [A, B, C] and changed
\* [A, X, C] give A Planned, B Cancelled, X Added, C Planned.
C18_Resynchronisation ==
    Reconciled =>
        /\ pEvent.actual_path = Resynchronised(pEvent.planned_path, pEvent.changed_path[1], 0, 0)
        /\ (pEvent.planned_path = <<"A", "B", "C">> /\ pEvent.changed_path[1] = <<"A", "X", "C">>) =>
              pEvent.actual_path = <<ActualPathStop("Planned", "A"), ActualPathStop("Cancelled", "B"),
                                     ActualPathStop("Added", "X"), ActualPathStop("Planned", "C")>>
C18_Witness ==
    /\ Reconciled
    /\ pEvent.planned_path = <<"A", "B", "C">> /\ pEvent.changed_path[1] = <<"A", "X", "C">>
    /\ pEvent.actual_path = <<ActualPathStop("Planned", "A"), ActualPathStop("Cancelled", "B"),
                               ActualPathStop("Added", "X"), ActualPathStop("Planned", "C")>>

IsPrefixOf(short, long) ==
    Len(short) <= Len(long) /\ \A k \in 1..Len(short) : short[k] = long[k]

\* C19: when the changed path is the planned path followed by extra names, actual_path is
\* the planned names all Planned followed by the extra names all Added; when the planned
\* path is the changed path followed by extra names, actual_path is the changed names all
\* Planned followed by the extra names all Cancelled.
C19_Tails ==
    Reconciled =>
        /\ IsPrefixOf(pEvent.planned_path, pEvent.changed_path[1]) =>
              pEvent.actual_path =
                  Tagged(pEvent.planned_path, "Planned")
                      \o Tagged(Slice(pEvent.changed_path[1], Len(pEvent.planned_path),
                                      Len(pEvent.changed_path[1])), "Added")
        /\ IsPrefixOf(pEvent.changed_path[1], pEvent.planned_path) =>
              pEvent.actual_path =
                  Tagged(pEvent.changed_path[1], "Planned")
                      \o Tagged(Slice(pEvent.planned_path, Len(pEvent.changed_path[1]),
                                      Len(pEvent.planned_path)), "Cancelled")
C19_Witness ==
    /\ Reconciled
    /\ pEvent.planned_path = <<"A", "B", "C">> /\ pEvent.changed_path[1] = <<"A">>
    /\ pEvent.actual_path = <<ActualPathStop("Planned", "A"), ActualPathStop("Cancelled", "B"),
                               ActualPathStop("Cancelled", "C")>>

\* C20: without a changed path, actual_path is the planned path, in order, every entry
\* tagged Planned; an empty planned path gives an empty actual_path.
C20_Identity ==
    (pPc = "done" /\ pEvent.changed_path = None) =>
        /\ Len(pEvent.actual_path) = Len(pEvent.planned_path)
        /\ \A k \in 1..Len(pEvent.planned_path) :
              pEvent.actual_path[k] = ActualPathStop("Planned", pEvent.planned_path[k])
C20_Witness ==
    /\ pPc = "done" /\ pEvent.changed_path = None
    /\ pEvent.planned_path = <<"A", "B", "A">>
    /\ pEvent.actual_path = <<ActualPathStop("Planned", "A"), ActualPathStop("Planned", "B"),
                               ActualPathStop("Planned", "A")>>

\* the pointers and the output at the head of each iteration of the while loop, the
\* first "fuel" iterations at most, and after the last of them
RECURSIVE PathIterations(_, _, _, _)
PathIterations(planned, changed, st, fuel) ==
    IF fuel = 0 \/ ~(st.i < Len(changed) \/ st.j < Len(planned)) THEN <<st>>
    ELSE <<st>> \o PathIterations(planned, changed,
                                  PathStep(planned, changed, st.i, st.j, st.acc), fuel - 1)
WalkOf(e) ==
    PathIterations(e.planned_path, Unwrap(e.changed_path), [i |-> 0, j |-> 0, acc |-> <<>>],
                   Len(e.planned_path) + Len(Unwrap(e.changed_path)))

\* C37: for every planned path and changed path, the while loop of
\* calculate_actual_path is left after at most len(planned) + len(changed) iterations;
\* no iteration moves i or j back or past the end of its list and each moves at least
\* one of them forward; actual_path has at most len(planned) + len(changed) entries
\* (len(planned) without a changed path).
C37_Termination ==
    pPc = "done" =>
        /\ Len(pEvent.actual_path) <= Len(pEvent.planned_path) + Len(UnwrapOr(pEvent.changed_path, <<>>))
        /\ IsSome(pEvent.changed_path) =>
              LET walk == WalkOf(pEvent)
                  last == walk[Len(walk)]
              IN  /\ ~(last.i < Len(Unwrap(pEvent.changed_path)) \/ last.j < Len(pEvent.planned_path))
                  /\ last.acc = pEvent.actual_path
                  /\ \A k \in 1..(Len(walk) - 1) :
                        /\ walk[k + 1].i >= walk[k].i /\ walk[k + 1].j >= walk[k].j
                        /\ walk[k + 1].i + walk[k + 1].j > walk[k].i + walk[k].j
                        /\ walk[k + 1].i <= Len(Unwrap(pEvent.changed_path))
                        /\ walk[k + 1].j <= Len(pEvent.planned_path)
\* a planned path with a repeated name and a changed path with no name in common: one
\* iteration skips all of both, and the output has as many entries as both lists
C37_Witness ==
    /\ pPc = "done" /\ IsSome(pEvent.changed_path)
    /\ pEvent.planned_path = <<"A", "B", "A">> /\ Unwrap(pEvent.changed_path) = <<"C", "X", "C">>
    /\ Len(WalkOf(pEvent)) = 2
    /\ Len(pEvent.actual_path) = 6

(***************************************************************************)
(* Properties of the stitching of a stop into a trip that names its        *)
(* station differently                                                     *)
(***************************************************************************)
TripOfS(trips) == trips[TripIdString(IdS1)]
EntriesOfS(trip) == {k \in 1..Len(trip.stops) : IsOwnStationName(aTimetable, trip.stops[k].info.name)}
\* the entries of the trip that name S by its alias or by another spelling of its name
\* key, not by its station name, and hold no Stop
OpenAliasEntries(trip) ==
    {k \in EntriesOfS(trip) : /\ trip.stops[k].info.name # aTimetable.station_name
                              /\ trip.stops[k].stop = None}
\* C24: when the trip has an entry without a Stop that names S by a registered alias
\* or by a name of the same name key, not by the station name itself, stitching S's
\* stop attaches it to that entry and the trip has no further entry for S afterwards.
C24_AliasAttach ==
    (aPc = "done" /\ OpenAliasEntries(TripOfS(aBefore)) # {}) =>
        /\ Cardinality(EntriesOfS(TripOfS(aTrips))) = Cardinality(EntriesOfS(TripOfS(aBefore)))
        /\ \E k \in EntriesOfS(TripOfS(aTrips)) :
              /\ TripOfS(aTrips).stops[k].info.name # aTimetable.station_name
              /\ TripOfS(aTrips).stops[k].stop =
                    Some(StopRef("s", aTimetable, FullIdString(IdS1)))

(***************************************************************************)
(* Properties of the locking of concurrent calls                           *)
(***************************************************************************)
\* The guards the task holds on the lock
GuardsOf(task, lock) == {i \in 1..Len(lHeld[lock]) : lHeld[lock][i][1] = task}

C35_OnboardingNotLost ==
    tPc = "idle" =>
        \A station \in DOMAIN tNews : \E j \in 1..Len(tQueue) : tQueue[j] = station

\* C36: trip T1, whose path lists each station once in the view of S (X, S, Y) and in
\* the view of Y (X, S, Y, or X, Z, S, Y once Y has learnt of the added stop Z), has
\* each station name at most once in its InternalTrip, whatever calls of update ran.
NoNameTwice(stops) ==
    \A j, k \in 1..Len(stops) : stops[j].info.name = stops[k].info.name => j = k
C36_NoDuplicateEntries ==
    TripIdString(IdS1) \in DOMAIN tTrips => NoNameTwice(tTrips[TripIdString(IdS1)].stops)

(***************************************************************************)
(* Properties of a sequence of merges                                      *)
(***************************************************************************)
\* the distance of two instants exceeds one minute
MoreThanAMinuteApart(a, b) == a - b > Minutes(1) \/ b - a > Minutes(1)

\* C34: whenever the merges since the tracked Event was last reported have moved its
\* revised time more than one minute away from the revised time it had then, to a value
\* at least five minutes after the planned time, one of those merges was reported: no
\* reachable state has such a move made only of merges that returned false.
C34_NoUnreportedDrift ==
    (/\ dSince > 0
     /\ IsSome(dReported) /\ IsSome(dEvent.changed_time)
     /\ MoreThanAMinuteApart(Unwrap(dEvent.changed_time), Unwrap(dReported))
     /\ Unwrap(dEvent.changed_time) - Unwrap(dEvent.planned_time) >= Minutes(5))
        => FALSE

(***************************************************************************)
(* Properties of the rate limiter                                          *)
(***************************************************************************)
\* C38: with a configured limit L, avaliable_requests stays within 0..L; the calls that
\* were let through since the last refill (or since construction) and the tokens left
\* add up to L, so at most L are let through between two refills; a refill comes at
\* least one minute after the refill before it (or after construction); a call that
\* finds no token returns RateLimitReached, a call that finds one returns Ok, and only
\* a call that returned Ok goes on to send its request.
C38_RateLimiter ==
    IsSome(rLimit) =>
        /\ rState.avaliable_requests \in 0..Unwrap(rLimit)
        /\ rGranted + rState.avaliable_requests = Unwrap(rLimit)
        /\ rGranted <= Unwrap(rLimit)
        /\ IsSome(rRefillGap) => Unwrap(rRefillGap) >= 60
        /\ \A task \in LimitTasks :
              /\ rRes[task].result = "RateLimitReached" <=> rRes[task].found = Some(0)
              /\ rRes[task].result = "Ok" <=>
                    (IsSome(rRes[task].found) /\ Unwrap(rRes[task].found) > 0)
              /\ rPc[task] = "upstream" => rRes[task].result = "Ok"
        /\ rUpstream + Cardinality({task \in LimitTasks : rPc[task] = "upstream"}) <= rCalls
\* both tasks called get at once with one token left after a refill: one was let through,
\* the other was turned away while the first was still sending
C38_Witness ==
    /\ rLimit = Some(1) /\ IsSome(rRefillGap)
    /\ rPc["t1"] = "upstream" /\ rRes["t1"].result = "Ok"
    /\ rPc["t2"] = "idle" /\ rRes["t2"].result = "RateLimitReached"
    /\ rState.avaliable_requests = 0

(***************************************************************************)
(* Properties of the collector supervision loop                            *)
(***************************************************************************)
\* C39: once a run has failed or panicked with strategy Restart and the collector has
\* been made anew from the state get_collector returned, run_persistent is eventually
\* called again, unless a later get_collector fails.
C39_RestartLiveness == (supPc = "recreated") ~> (supPc \in {"running", "not_loaded"})

\* C40: whenever the collector is run again after a run that failed (the loop going on
\* because the strategy was Resume, or Restart that became Resume), the task has
\* waited since that run returned; after k failures in a row backoff is the k-th
\* value of the backoff function starting from the tick, and after a successful run it
\* is the tick.
C40_Backoff ==
    /\ (supPc = "running" /\ supFails > 0) => supWaits # <<>>
    /\ (supPc = "running" /\ supFails > 0) =>
          supBackoff = AtMost(FirstBackoff(supTick) + supFails * FirstBackoff(supTick), MaxBackoff)
    /\ (supPc \in {"loop", "running"} /\ supFails = 0) => supBackoff = FirstBackoff(supTick)

====
